---- MODULE Spec2Model ----
(***************************************************************************)
(* Model of the telemetry pipeline of dashboarder-go: the Sensor Ingestor  *)
(* (main, publish handler, ProcessMessage, MetadataService) and the part   *)
(* of the Data Persister that consumes its events.                         *)
(*                                                                         *)
(* Text is modelled as sequences of one-character strings.  A float64 is   *)
(* a record [k, n]: k = "fin" with n the value in units of 1/Scale,        *)
(* k = "nan", or k = "inf" with n the sign.                                *)
(***************************************************************************)
EXTENDS Integers, Sequences, FiniteSets, TLC

\* ------------------------------------------------------------------ bounds
\* Decimal places a modelled float64 carries (resolution 1/Scale).
FracDigits == 2

RECURSIVE Pow(_, _)
Pow(b, e) == IF e <= 0 THEN 1 ELSE b * Pow(b, e - 1)

Scale == Pow(10, FracDigits)

\* ------------------------------------------------------------- characters
\* lower() of strconv: ASCII letters to lower case (the letters the model uses).
Lower(c) ==
    CASE c = "N" -> "n" [] c = "A" -> "a" [] c = "I" -> "i" [] c = "F" -> "f"
      [] c = "E" -> "e" [] c = "X" -> "x" [] c = "P" -> "p" [] OTHER -> c

\* Value of a decimal digit, -1 for any other character.
DecDigit(c) ==
    CASE c = "0" -> 0 [] c = "1" -> 1 [] c = "2" -> 2 [] c = "3" -> 3
      [] c = "4" -> 4 [] c = "5" -> 5 [] c = "6" -> 6 [] c = "7" -> 7
      [] c = "8" -> 8 [] c = "9" -> 9 [] OTHER -> -1

\* Value of a hexadecimal digit, -1 for any other character.
HexDigit(c) ==
    IF DecDigit(c) >= 0 THEN DecDigit(c)
    ELSE CASE Lower(c) = "a" -> 10 [] Lower(c) = "b" -> 11 [] Lower(c) = "c" -> 12
           [] Lower(c) = "d" -> 13 [] Lower(c) = "e" -> 14 [] Lower(c) = "f" -> 15
           [] OTHER -> -1

DigitChar(d) ==
    CASE d = 0 -> "0" [] d = 1 -> "1" [] d = 2 -> "2" [] d = 3 -> "3" [] d = 4 -> "4"
      [] d = 5 -> "5" [] d = 6 -> "6" [] d = 7 -> "7" [] d = 8 -> "8" [] OTHER -> "9"

\* ----------------------------------------------------------------- floats
Fin(n) == [k |-> "fin", n |-> n]
NaN == [k |-> "nan", n |-> 0]
Inf(sign) == [k |-> "inf", n |-> sign]

IsFinite(v) == v.k = "fin"

\* Go's a < b on float64: false whenever an operand is NaN.
FLess(a, b) ==
    CASE a.k = "nan" \/ b.k = "nan" -> FALSE
      [] a.k = "fin" /\ b.k = "fin" -> a.n < b.n
      [] a.k = "inf" /\ b.k = "fin" -> a.n < 0
      [] a.k = "fin" /\ b.k = "inf" -> b.n > 0
      [] OTHER -> a.n < b.n

\* Go's a > b on float64.
FGreater(a, b) == FLess(b, a)

\* ------------------------------------------------------ strconv.ParseFloat
\* commonPrefixLenIgnoreCase(s[from..], prefix)
RECURSIVE PrefixLen(_, _, _, _)
PrefixLen(s, from, prefix, k) ==
    IF k < Len(prefix) /\ from + k <= Len(s) /\ Lower(s[from + k]) = prefix[k + 1]
    THEN PrefixLen(s, from, prefix, k + 1)
    ELSE k

InfinityWord == <<"i", "n", "f", "i", "n", "i", "t", "y">>
NanWord == <<"n", "a", "n">>

\* special(s): [ok, v, n] with n the number of characters consumed.
Special(s) ==
    IF Len(s) = 0 THEN [ok |-> FALSE, v |-> NaN, n |-> 0]
    ELSE
      LET signed == s[1] \in {"+", "-"}
          sign == IF s[1] = "-" THEN -1 ELSE 1
          from == IF signed THEN 2 ELSE 1
          ni == PrefixLen(s, from, InfinityWord, 0)
          n3 == IF 3 < ni /\ ni < 8 THEN 3 ELSE ni
      IN  IF (signed \/ Lower(s[1]) = "i") /\ (n3 = 3 \/ n3 = 8)
          THEN [ok |-> TRUE, v |-> Inf(sign), n |-> (from - 1) + n3]
          ELSE IF ~signed /\ Lower(s[1]) = "n" /\ PrefixLen(s, 1, NanWord, 0) = 3
          THEN [ok |-> TRUE, v |-> NaN, n |-> 3]
          ELSE [ok |-> FALSE, v |-> NaN, n |-> 0]

\* The mantissa loop of readFloat from index i, with its locals mantissa, nd,
\* dp, sawdot and sawdigits: their values when the loop ends at index i.
RECURSIVE ScanMantissa(_, _, _, _, _, _, _, _)
ScanMantissa(s, i, base, mant, nd, dp, sawdot, sawdigits) ==
    IF i > Len(s)
    THEN [i |-> i, mant |-> mant, nd |-> nd, dp |-> dp, sawdot |-> sawdot,
          sawdigits |-> sawdigits]
    ELSE IF s[i] = "." /\ ~sawdot
      THEN ScanMantissa(s, i + 1, base, mant, nd, nd, TRUE, sawdigits)
    ELSE IF s[i] = "0" /\ nd = 0
      THEN ScanMantissa(s, i + 1, base, mant, nd, dp - 1, sawdot, TRUE)
    ELSE IF (IF base = 16 THEN HexDigit(s[i]) ELSE DecDigit(s[i])) >= 0
      THEN ScanMantissa(s, i + 1, base,
                        mant * base + (IF base = 16 THEN HexDigit(s[i]) ELSE DecDigit(s[i])),
                        nd + 1, dp, sawdot, TRUE)
    ELSE [i |-> i, mant |-> mant, nd |-> nd, dp |-> dp, sawdot |-> sawdot,
          sawdigits |-> sawdigits]

\* The exponent digits of readFloat from index i.
RECURSIVE ScanExpDigits(_, _, _)
ScanExpDigits(s, i, e) ==
    IF i <= Len(s) /\ DecDigit(s[i]) >= 0
    THEN ScanExpDigits(s, i + 1, e * 10 + DecDigit(s[i]))
    ELSE [i |-> i, e |-> e]

\* The exponent part of readFloat, from the scan m of the mantissa on.
ReadExponent(s, m, neg, hex) ==
    LET bad == [ok |-> FALSE, mant |-> 0, exp |-> 0, neg |-> FALSE, hex |-> FALSE, i |-> 1]
        dp0 == IF m.sawdot THEN m.dp ELSE m.nd
        dp1 == IF hex THEN dp0 * 4 ELSE dp0
        ndMant == IF hex THEN m.nd * 4 ELSE m.nd
        hasExp == m.i <= Len(s) /\ Lower(s[m.i]) = (IF hex THEN "p" ELSE "e")
        j0 == m.i + 1
        esign == IF j0 <= Len(s) /\ s[j0] = "-" THEN -1 ELSE 1
        j1 == IF j0 <= Len(s) /\ s[j0] \in {"+", "-"} THEN j0 + 1 ELSE j0
    IN  IF ~m.sawdigits THEN bad
        ELSE IF hasExp THEN
          IF j1 > Len(s) \/ DecDigit(s[j1]) < 0 THEN bad
          ELSE LET ex == ScanExpDigits(s, j1, 0)
               IN  [ok |-> TRUE, mant |-> m.mant,
                    exp |-> IF m.mant # 0 THEN dp1 + ex.e * esign - ndMant ELSE 0,
                    neg |-> neg, hex |-> hex, i |-> ex.i]
        ELSE IF hex THEN bad
        ELSE [ok |-> TRUE, mant |-> m.mant,
              exp |-> IF m.mant # 0 THEN dp1 - ndMant ELSE 0,
              neg |-> neg, hex |-> hex, i |-> m.i]

\* readFloat(s): [ok, mant, exp, neg, hex, i]; the value is mant * base^exp and
\* i is the index of the first character not consumed.
ReadFloat(s) ==
    IF Len(s) = 0
    THEN [ok |-> FALSE, mant |-> 0, exp |-> 0, neg |-> FALSE, hex |-> FALSE, i |-> 1]
    ELSE
      LET i0 == IF s[1] \in {"+", "-"} THEN 2 ELSE 1
          hex == i0 + 2 <= Len(s) /\ s[i0] = "0" /\ Lower(s[i0 + 1]) = "x"
      IN  CHOOSE r \in { ReadExponent(s, m, s[1] = "-", hex) :
                         m \in { ScanMantissa(s, IF hex THEN i0 + 2 ELSE i0,
                                              IF hex THEN 16 ELSE 10, 0, 0, 0, FALSE, FALSE) } } :
            TRUE

\* mant * base^exp in units of 1/Scale (exact whenever the value has at most
\* FracDigits decimal places).
ToScaled(mant, base, exp) ==
    IF exp >= 0 THEN mant * Pow(base, exp) * Scale
    ELSE (mant * Scale) \div Pow(base, -exp)

\* strconv.ParseFloat(s, 64): [ok, v]; ok = FALSE is the syntax error.  The
\* whole string must be consumed, no character is skipped or trimmed.
ParseFloat(s) ==
    CHOOSE r \in
      { IF sp.ok THEN
          IF sp.n = Len(s) THEN [ok |-> TRUE, v |-> sp.v] ELSE [ok |-> FALSE, v |-> Fin(0)]
        ELSE IF rf.ok /\ rf.i = Len(s) + 1 THEN
          [ok |-> TRUE,
           v |-> Fin((IF rf.neg THEN -1 ELSE 1)
                       * ToScaled(rf.mant, IF rf.hex THEN 2 ELSE 10, rf.exp))]
        ELSE [ok |-> FALSE, v |-> Fin(0)] :
        sp \in {Special(s)}, rf \in {ReadFloat(s)} } : TRUE

\* ------------------------------------------------------- JSON (encoding/json)
RECURSIVE NatToChars(_)
NatToChars(n) ==
    IF n < 10 THEN <<DigitChar(n)>> ELSE Append(NatToChars(n \div 10), DigitChar(n % 10))

\* strconv.AppendInt(b, n, 10)
IntToChars(n) == IF n < 0 THEN <<"-">> \o NatToChars(-n) ELSE NatToChars(n)

RECURSIVE CharsToNat(_, _)
CharsToNat(s, acc) ==
    IF Len(s) = 0 THEN acc ELSE CharsToNat(Tail(s), acc * 10 + DecDigit(s[1]))

AllDigits(s) == Len(s) > 0 /\ \A i \in 1..Len(s) : DecDigit(s[i]) >= 0

\* The fraction f (0 < f < Scale) as FracDigits digits with the trailing zeros cut.
RECURSIVE FracChars(_, _)
FracChars(f, width) ==
    IF f = 0 \/ width = 0 THEN <<>>
    ELSE LET unit == Pow(10, width - 1)
         IN  <<DigitChar(f \div unit)>> \o FracChars(f % unit, width - 1)

\* strconv.AppendFloat(b, v, 'f', -1, 64) on a finite value: the shortest
\* decimal text that parses back to v.
FormatFloat(v) ==
    LET a == IF v.n < 0 THEN -v.n ELSE v.n
        whole == NatToChars(a \div Scale)
        frac == FracChars(a % Scale, FracDigits)
    IN  (IF v.n < 0 THEN <<"-">> ELSE <<>>) \o whole
          \o (IF Len(frac) > 0 THEN <<".">> \o frac ELSE <<>>)

\* Offset of the process's local time zone from UTC, in clock units.
ZoneOffset == 1

\* time.Now(): the current instant in the Local location.
TimeNow(clock) == [instant |-> clock, loc |-> "Local"]

\* Time.UTC(): the same instant, location UTC.
TimeUTC(t) == [t EXCEPT !.loc = "UTC"]

\* Time.MarshalJSON (RFC 3339): the wall clock in t's location, then "Z" for
\* UTC or the signed offset.
FormatTime(t) ==
    IF t.loc = "UTC" THEN Append(NatToChars(t.instant), "Z")
    ELSE NatToChars(t.instant + ZoneOffset) \o <<"+">> \o NatToChars(ZoneOffset)

\* Index of the first zone character of an RFC 3339 text, 0 when there is none.
RECURSIVE ZoneIndex(_, _)
ZoneIndex(s, i) ==
    IF i > Len(s) THEN 0
    ELSE IF s[i] \in {"Z", "+"} THEN i ELSE ZoneIndex(s, i + 1)

\* Time.UnmarshalJSON: [ok, t]; a "Z" zone decodes to location UTC.
ParseTime(s) ==
    LET z == ZoneIndex(s, 1)
        wall == SubSeq(s, 1, z - 1)
        off == SubSeq(s, z + 1, Len(s))
        bad == [ok |-> FALSE, t |-> [instant |-> 0, loc |-> "UTC"]]
    IN  IF z = 0 \/ ~AllDigits(wall) THEN bad
        ELSE IF s[z] = "Z" THEN
          IF Len(off) = 0
          THEN [ok |-> TRUE, t |-> [instant |-> CharsToNat(wall, 0), loc |-> "UTC"]]
          ELSE bad
        ELSE IF AllDigits(off) /\ CharsToNat(wall, 0) >= CharsToNat(off, 0)
          THEN [ok |-> TRUE,
                t |-> [instant |-> CharsToNat(wall, 0) - CharsToNat(off, 0), loc |-> "Fixed"]]
          ELSE bad

None == [some |-> FALSE, v |-> Fin(0)]
Some(v) == [some |-> TRUE, v |-> v]

NoBody == [sensor_id |-> <<>>, value |-> <<>>, timestamp |-> <<>>]
NoEvent == [SensorID |-> 0, Value |-> Fin(0), Timestamp |-> [instant |-> 0, loc |-> "UTC"]]

\* An encoder that writes whatever strconv makes of the value, NaN and the
\* infinities included.
MarshalEventAnyFloat(e) ==
    [ok |-> TRUE,
     body |-> [sensor_id |-> IntToChars(e.SensorID),
               value |-> IF IsFinite(e.Value) THEN FormatFloat(e.Value)
                         ELSE IF e.Value.k = "nan" THEN <<"N", "a", "N">>
                         ELSE IF e.Value.n > 0 THEN <<"+", "I", "n", "f">>
                         ELSE <<"-", "I", "n", "f">>,
               timestamp |-> FormatTime(e.Timestamp)]]

\* json.Marshal(SensorEvent): [ok, body]; the body is the JSON object, one text
\* per field tag.  A NaN or infinite Value is an UnsupportedValueError.
MarshalEvent(e) ==
    IF ~IsFinite(e.Value) THEN [ok |-> FALSE, body |-> NoBody]
    ELSE [ok |-> TRUE,
          body |-> [sensor_id |-> IntToChars(e.SensorID),
                    value |-> FormatFloat(e.Value),
                    timestamp |-> FormatTime(e.Timestamp)]]

\* The text is a JSON number: -? (0 | [1-9] digits) (. digits)? (e|E sign? digits)?
JsonNumber(s) ==
    LET t == IF Len(s) > 0 /\ s[1] = "-" THEN Tail(s) ELSE s
    IN  /\ Len(t) > 0 /\ DecDigit(t[1]) >= 0
        /\ (t[1] = "0" /\ Len(t) > 1) => t[2] \in {".", "e", "E"}
        /\ \A i \in 1..Len(t) :
             /\ DecDigit(t[i]) >= 0 \/ t[i] \in {".", "e", "E", "+", "-"}
             /\ t[i] = "." => (i < Len(t) /\ DecDigit(t[i + 1]) >= 0)
        /\ ParseFloat(s).ok

\* The JSON literal null.
JsonNull == <<"n", "u", "l", "l">>

\* The text of a key of the JSON object, null standing for a key the object
\* does not have: the decoder leaves the field alone in both cases.
Field(body, key) == IF key \in DOMAIN body THEN body[key] ELSE JsonNull

\* The zero time.Time (January 1, year 1, UTC): an instant before every
\* reading of the clock, cut to the integers of the model.
ZeroTime == [instant |-> 0 - Pow(2, 30), loc |-> "UTC"]

\* json.Unmarshal(payload, &event) in the Persister, event being the zero
\* SensorEvent: [ok, event].  A key that is missing or null leaves its field
\* at the zero value; a value of the wrong kind is an error.
UnmarshalEvent(body) ==
    LET idText == Field(body, "sensor_id")
        idNeg == Len(idText) > 0 /\ idText[1] = "-"
        idDigits == IF idNeg THEN Tail(idText) ELSE idText
        id == IF idText = JsonNull THEN [ok |-> TRUE, v |-> 0]
              ELSE IF AllDigits(idDigits)
              THEN [ok |-> TRUE, v |-> (IF idNeg THEN -1 ELSE 1) * CharsToNat(idDigits, 0)]
              ELSE [ok |-> FALSE, v |-> 0]
        valText == Field(body, "value")
        val == IF valText = JsonNull THEN [ok |-> TRUE, v |-> Fin(0)]
               ELSE IF JsonNumber(valText) THEN ParseFloat(valText)
               ELSE [ok |-> FALSE, v |-> Fin(0)]
        tsText == Field(body, "timestamp")
        ts == IF tsText = JsonNull THEN [ok |-> TRUE, t |-> ZeroTime]
              ELSE ParseTime(tsText)
    IN  IF id.ok /\ val.ok /\ ts.ok
        THEN [ok |-> TRUE,
              event |-> [SensorID |-> id.v, Value |-> val.v, Timestamp |-> ts.t]]
        ELSE [ok |-> FALSE, event |-> NoEvent]

\* --------------------------------------------------------------- bounds
\* Raw messages the broker delivers to the Ingestor in one run.
MaxMsgs == 1
\* Ticks of the refresh ticker in one run.
MaxRefresh == 1
\* Out-of-band changes of sensors.is_active in one run.
MaxDbChanges == 1
\* Last reading of the wall clock.
MaxClock == 1
\* Events handed to the Persister in one run of the stores.
MaxSaves == 2
\* Calls of the Ingestor's handler in the run of the three subscribers.
MaxCalls == 2
\* Messages the three subscribers are handed in that run, all together.
MaxHandled == 4
\* Flag changes, refresh ticks, messages and requests in the run with
\* inactive sensors, all together.
MaxStimuli == 4
\* Requests the Read API serves in one run.
MaxRequests == 1
\* Rows of sensor_data when the Read API starts serving history.
MaxRows == 2

\* ------------------------------------------------------------ the database
\* The sensors table joined to sensor_types: one row per mqtt_topic (UNIQUE),
\* with the type's nullable min_value and max_value.
SensorTopics == {"/msh/a", "/msh/b", "/msh/c", "/msh/d"}
\* A topic under /msh/# that no sensor row carries.
UnknownTopic == "/msh/u"
AllTopics == SensorTopics \cup {UnknownTopic}
\* The sensors whose is_active flag changes while the Ingestor runs.
ChangingTopics == {"/msh/a", "/msh/b"}

\* SensorMetadata, with the ok flag of a map lookup; Absent is the zero value
\* a lookup of a missing key returns.
Absent == [found |-> FALSE, ID |-> 0, MinValue |-> None, MaxValue |-> None]
Entry(id, lo, hi) == [found |-> TRUE, ID |-> id, MinValue |-> lo, MaxValue |-> hi]

\* The row the refresh query returns for an active sensor (lines 55-64).
SensorRow(topic) ==
    CASE topic = "/msh/a" -> Entry(1, Some(Fin(Scale)), Some(Fin(2 * Scale)))
      [] topic = "/msh/b" -> Entry(2, None, None)
      [] topic = "/msh/c" -> Entry(3, Some(Fin(Scale)), None)
      [] topic = "/msh/d" -> Entry(4, None, Some(Fin(2 * Scale)))
      [] OTHER -> Absent

\* make(map[string]SensorMetadata)
EmptyCache == [t \in AllTopics |-> Absent]

\* The mapping a refresh that reads every row of the active set builds.
CacheOf(active) == [t \in AllTopics |-> IF t \in active THEN SensorRow(t) ELSE Absent]

\* ------------------------------------------------------------------ state
VARIABLES
    mainPc,         \* main() of the Ingestor: the step it is about to take
    optsHandler,    \* opts.DefaultPublishHandler: "nil" or "handler"
    routerHandler,  \* the default handler the client's router holds
    subscribed,     \* the subscription on InputTopic is in place
    dbActive,       \* topics of the sensors with is_active = true
    dbChanges,      \* out-of-band changes made so far
    cache,          \* MetadataService.cache
    loader,         \* the LoadSensors call in progress
    lastLoad,       \* how the last LoadSensors call ended
    complete,       \* the mapping last swapped in, as it stood when its row loop ended
    startupLoad,    \* the blocking load of main: "none", "ok" or "failed"
    refresherPc,    \* StartAutoRefresh: "off", "wait", "load", "stopped"
    ticks,          \* ticks of the refresh ticker so far
    cur,            \* the publish-handler invocation in progress
    delivered,      \* raw messages the broker has delivered to the client so far
    msg,            \* the latest delivered raw message: what became of it
    outbox,         \* messages on OutputTopic not yet consumed by the Persister
    now,            \* wall clock
    sensor_data,    \* rows of the time-series table
    kv,             \* key-value store: sensor id -> text of the last value
    saves,          \* events the Persister has been handed outside the Ingestor's flow
    lastSave,       \* how the Persister's last handling of such an event ended
    requests,       \* requests the Read API has served so far
    resp,           \* the Read API's latest response
    monMain,        \* Monitor: the main task, its position and its sample
    monStart,       \* Monitor: the goroutine of the sample at startup
    monTicker,      \* Monitor: ticks fired so far, and the one waiting in ticker.C
    monSignal,      \* Monitor: a signal waits in sigChan
    monClient,      \* Monitor: the MQTT client, "connected" or "disconnected"
    monPublished,   \* Monitor: the publish calls made so far, sample by sample
    logFiles,       \* Log Collector: the files of LogDir, by service name
    logMsgs,        \* Log Collector: messages handled so far
    logLast,        \* Log Collector: how the handling of the last message ended
    persMain,       \* Persister: main(), its position, its client and its two stores
    persFlight,     \* Persister: the handler call in progress and its store operations
    ingInput,       \* Ingestor and broker: cfg.InputTopic, the filter subscribed
    ingBus,         \* Ingestor and broker: publishes the broker has not yet routed
    ingLoop,        \* Ingestor and broker: counts of what was published and handled
    logWriter,      \* Ingestor: the logger, its buffers, standard output and MqttLogWriter
    ingCtx,         \* Ingestor: the context of the refresh task and the ticker's channel
    logRun          \* Log Collector: messages waiting in its client, handler calls step by step

vars == <<mainPc, optsHandler, routerHandler, subscribed, dbActive, dbChanges, cache,
          loader, lastLoad, complete, startupLoad, refresherPc, ticks, cur, delivered, msg,
          outbox, now,
          sensor_data, kv, saves, lastSave, requests, resp,
          monMain, monStart, monTicker, monSignal, monClient, monPublished,
          logFiles, logMsgs, logLast, persMain, persFlight,
          ingInput, ingBus, ingLoop, logWriter, ingCtx, logRun>>

mainVars == <<mainPc, optsHandler, routerHandler, subscribed, startupLoad>>
dbVars == <<dbActive, dbChanges>>
metaVars == <<cache, loader, lastLoad, complete>>
refreshVars == <<refresherPc, ticks>>
handlerVars == <<cur, delivered, msg>>
storeVars == <<sensor_data, kv>>
persistVars == <<saves, lastSave>>
apiVars == <<requests, resp>>
monVars == <<monMain, monStart, monTicker, monSignal, monClient, monPublished>>
\* The services beside the pipeline of Ingestor, Persister and Read API.
logVars == <<logFiles, logMsgs, logLast>>
shutVars == <<persMain, persFlight>>
loopVars == <<ingInput, ingBus, ingLoop>>
sideVars == <<loopVars, logWriter, ingCtx, logRun>>
extVars == <<monVars, logVars, shutVars, sideVars>>
\* The pipeline of Ingestor, Persister and Read API.
pipelineVars == <<mainVars, dbVars, metaVars, refreshVars, handlerVars, outbox, now, storeVars,
                  persistVars, apiVars>>

IdleLoader == [pc |-> "idle", by |-> "none", rows |-> {}, newCache |-> EmptyCache,
               expect |-> EmptyCache, before |-> EmptyCache, readFailed |-> FALSE]
NoLoad == [calls |-> 0, by |-> "none", ok |-> FALSE, failed |-> FALSE,
           expect |-> EmptyCache, before |-> EmptyCache]
IdleHandler == [pc |-> "idle", id |-> 0, topic |-> "", payload |-> <<>>, look |-> Absent,
                snapshot |-> EmptyCache, duringLoad |-> FALSE, event |-> NoEvent,
                body |-> NoBody]

\* The process has not exited.
Alive == mainPc # "exited"

\* ------------------------------------------------------ out-of-band: the DB
\* An administrator adds or re-activates a sensor, or deactivates one.
DbSetActive ==
    /\ Alive /\ dbChanges < MaxDbChanges
    /\ \E t \in ChangingTopics :
         dbActive' = IF t \in dbActive THEN dbActive \ {t} ELSE dbActive \cup {t}
    /\ dbChanges' = dbChanges + 1
    /\ UNCHANGED <<mainVars, metaVars, refreshVars, handlerVars, outbox, now, storeVars, persistVars,
                   apiVars, extVars>>

\* ------------------------------------------------ MetadataService.LoadSensors
\* The caller `by` is at its call of LoadSensors.
AtLoadCall(by) ==
    IF by = "main" THEN mainPc = "load" ELSE refresherPc = "load"

\* main going on after a failed load.
ReturnedIgnoringError(by, ok) ==
    IF by = "main"
    THEN /\ mainPc' = "startRefresh"
         /\ startupLoad' = IF ok THEN "ok" ELSE "failed"
         /\ UNCHANGED <<optsHandler, routerHandler, subscribed, refreshVars>>
    ELSE /\ refresherPc' = "wait"
         /\ UNCHANGED <<mainVars, ticks>>

\* LoadSensors returned to its caller: main goes on or exits (main.go 63-66),
\* the refresh loop logs an error and waits for the next tick (metadata.go 128-130).
Returned(by, ok) ==
    IF by = "main"
    THEN /\ mainPc' = IF ok THEN "startRefresh" ELSE "exited"
         /\ startupLoad' = IF ok THEN "ok" ELSE "failed"
         /\ UNCHANGED <<optsHandler, routerHandler, subscribed, refreshVars>>
    ELSE /\ refresherPc' = "wait"
         /\ UNCHANGED <<mainVars, ticks>>

\* The query of LoadSensors without its is_active filter: every row of the
\* sensors that change is read.
LoadQueryAllRows(by) ==
    /\ Alive /\ AtLoadCall(by) /\ loader.pc = "idle"
    /\ \E queryOk \in BOOLEAN :
         IF queryOk
         THEN /\ loader' = [pc |-> "rows", by |-> by, rows |-> dbActive \cup ChangingTopics,
                            newCache |-> EmptyCache, expect |-> CacheOf(dbActive),
                            before |-> cache, readFailed |-> FALSE]
              /\ UNCHANGED <<mainVars, refreshVars, lastLoad>>
         ELSE /\ loader' = IdleLoader
              /\ lastLoad' = [calls |-> lastLoad.calls + 1, by |-> by, ok |-> FALSE,
                              failed |-> TRUE, expect |-> CacheOf(dbActive),
                              before |-> cache]
              /\ Returned(by, FALSE)
    /\ UNCHANGED <<dbVars, cache, complete, handlerVars, outbox, now, storeVars, persistVars,
                   apiVars, extVars>>

\* How s.db.Query(ctx, query) can end: main loads under context.Background()
\* (main.go 63), the refresh task under the context main cancels (metadata.go
\* 128), and the pool hands out no connection under a cancelled context.
QueryOutcomes(by) ==
    IF by = "refresher" /\ ingCtx.done THEN {FALSE} ELSE BOOLEAN

\* s.db.Query (line 66): an error returns at once, the cache untouched; else the
\* rows of the sensors active now are to be read into a fresh map (line 74).
LoadQuery(by) ==
    /\ Alive /\ AtLoadCall(by) /\ loader.pc = "idle"
    /\ \E queryOk \in QueryOutcomes(by) :
         IF queryOk
         THEN /\ loader' = [pc |-> "rows", by |-> by, rows |-> dbActive,
                            newCache |-> EmptyCache, expect |-> CacheOf(dbActive),
                            before |-> cache, readFailed |-> FALSE]
              /\ UNCHANGED <<mainVars, refreshVars, lastLoad>>
         ELSE /\ loader' = IdleLoader
              /\ lastLoad' = [calls |-> lastLoad.calls + 1, by |-> by, ok |-> FALSE,
                              failed |-> TRUE, expect |-> CacheOf(dbActive),
                              before |-> cache]
              /\ Returned(by, FALSE)
    /\ UNCHANGED <<dbVars, cache, complete, handlerVars, outbox, now, storeVars, persistVars,
                   apiVars, extVars>>

\* The row written into the map in use as well.
StoreRowInPlace(c, nc, topic) ==
    [cache |-> [c EXCEPT ![topic] = SensorRow(topic)],
     newCache |-> [nc EXCEPT ![topic] = SensorRow(topic)]]

\* newCache[topic] = meta (line 88): the row goes into the map built aside.
StoreRow(c, nc, topic) ==
    [cache |-> c, newCache |-> [nc EXCEPT ![topic] = SensorRow(topic)]]

\* One turn of the loop over rows (lines 77-90), the rows in the order the
\* database yields them.  rows.Next() may end the loop early on a read error,
\* which the code never asks for (no rows.Err()); a row whose Scan fails is
\* logged and skipped.
LoadNextRow ==
    /\ Alive /\ loader.pc = "rows" /\ loader.rows # {}
    /\ \E t \in loader.rows, outcome \in {"row", "scanError", "readError"} :
         CASE outcome = "row" ->
                LET st == StoreRow(cache, loader.newCache, t)
                IN  /\ cache' = st.cache
                    /\ loader' = [loader EXCEPT !.rows = loader.rows \ {t},
                                                !.newCache = st.newCache]
           [] outcome = "scanError" ->
                /\ loader' = [loader EXCEPT !.rows = loader.rows \ {t},
                                            !.readFailed = TRUE]
                /\ UNCHANGED cache
           [] OTHER ->
                /\ loader' = [loader EXCEPT !.rows = {}, !.readFailed = TRUE]
                /\ UNCHANGED cache
    /\ UNCHANGED <<mainVars, dbVars, lastLoad, complete, refreshVars, handlerVars,
                   outbox, now, storeVars, persistVars,
                   apiVars, extVars>>

\* The loop has ended: s.cache = newCache under the write lock, return nil
\* (lines 95-100).
LoadSwap ==
    /\ Alive /\ loader.pc = "rows" /\ loader.rows = {}
    /\ cache' = loader.newCache
    /\ complete' = loader.newCache
    /\ lastLoad' = [calls |-> lastLoad.calls + 1, by |-> loader.by, ok |-> TRUE,
                    failed |-> loader.readFailed, expect |-> loader.expect,
                    before |-> loader.before]
    /\ loader' = IdleLoader
    /\ Returned(loader.by, TRUE)
    /\ UNCHANGED <<dbVars, handlerVars, outbox, now, storeVars, persistVars,
                   apiVars, extVars>>

\* GetMetadata (lines 105-113): one read of the current map under the read lock.
GetMetadata(c, topic) == c[topic]

\* ------------------------------------------------------- StartAutoRefresh
\* case <-ticker.C (line 126): the loop calls LoadSensors.
RefreshTick ==
    /\ Alive /\ refresherPc = "wait" /\ ticks < MaxRefresh
    /\ refresherPc' = "load"
    /\ ticks' = ticks + 1
    /\ UNCHANGED <<mainVars, dbVars, metaVars, handlerVars, outbox, now, storeVars, persistVars,
                   apiVars, extVars>>

\* --------------------------------------------------------- main (Ingestor)
\* mqtt.NewClient(opts) (line 24): the client takes a copy of the options and
\* its router takes the default publish handler the options hold at this point.
MainNewClient ==
    /\ mainPc = "newClient"
    /\ routerHandler' = optsHandler
    /\ mainPc' = "connect"
    /\ UNCHANGED <<optsHandler, subscribed, startupLoad, dbVars, metaVars, refreshVars,
                   handlerVars, outbox, now, storeVars, persistVars,
                   apiVars, extVars>>

\* client.Connect() (lines 25-29): a failure ends the process.
MainConnect ==
    /\ mainPc = "connect"
    /\ \E ok \in BOOLEAN : mainPc' = IF ok THEN "pool" ELSE "exited"
    /\ UNCHANGED <<optsHandler, routerHandler, subscribed, startupLoad, dbVars, metaVars,
                   refreshVars, handlerVars, outbox, now, storeVars, persistVars,
                   apiVars, extVars>>

\* pgxpool.New with the refresh task started at once, before the load at
\* startup.
MainDbPoolStartingRefresh ==
    /\ mainPc = "pool"
    /\ \E ok \in BOOLEAN : mainPc' = IF ok THEN "load" ELSE "exited"
    /\ refresherPc' = "wait"
    /\ UNCHANGED <<optsHandler, routerHandler, subscribed, startupLoad, dbVars, metaVars,
                   ticks, handlerVars, outbox, now, storeVars, persistVars,
                   apiVars, extVars>>

\* pgxpool.New (lines 50-56): a failure ends the process.
MainDbPool ==
    /\ mainPc = "pool"
    /\ \E ok \in BOOLEAN : mainPc' = IF ok THEN "load" ELSE "exited"
    /\ UNCHANGED <<optsHandler, routerHandler, subscribed, startupLoad, dbVars, metaVars,
                   refreshVars, handlerVars, outbox, now, storeVars, persistVars,
                   apiVars, extVars>>

\* go metaService.StartAutoRefresh(ctx) (line 72).
MainStartRefresh ==
    /\ mainPc = "startRefresh"
    /\ refresherPc' = "wait"
    /\ mainPc' = "setHandler"
    /\ UNCHANGED <<optsHandler, routerHandler, subscribed, startupLoad, ticks, dbVars,
                   metaVars, handlerVars, outbox, now, storeVars, persistVars,
                   apiVars, extVars>>

\* opts.SetDefaultPublishHandler(...) (line 80): sets the field of opts; the
\* client built at line 24 holds its own copy.
MainSetHandler ==
    /\ mainPc = "setHandler"
    /\ optsHandler' = "handler"
    /\ mainPc' = "subscribe"
    /\ UNCHANGED <<routerHandler, subscribed, startupLoad, dbVars, metaVars, refreshVars,
                   handlerVars, outbox, now, storeVars, persistVars,
                   apiVars, extVars>>

\* client.Subscribe(cfg.InputTopic, 0, nil) (lines 109-112): no callback of
\* its own, so matching messages go to the router's default handler.
MainSubscribe ==
    /\ mainPc = "subscribe"
    /\ \E ok \in BOOLEAN :
         /\ subscribed' = ok
         /\ mainPc' = IF ok THEN "running" ELSE "exited"
    /\ UNCHANGED <<optsHandler, routerHandler, startupLoad, dbVars, metaVars, refreshVars,
                   handlerVars, outbox, now, storeVars, persistVars,
                   apiVars, extVars>>

\* <-sigChan (line 119) and the return of main: the process ends.
MainShutdown ==
    /\ mainPc = "running"
    /\ mainPc' = "exited"
    /\ subscribed' = FALSE
    /\ UNCHANGED <<optsHandler, routerHandler, startupLoad, dbVars, metaVars, refreshVars,
                   handlerVars, outbox, now, storeVars, persistVars,
                   apiVars, extVars>>

\* ------------------------------------------------------------ raw payloads
Text_1 == <<"1">>
Text_2 == <<"2">>
Text_3 == <<"3">>
Text_0_5 == <<"0", ".", "5">>
Text_1_5 == <<"1", ".", "5">>
Text_1_Newline == <<"1", "\n">>
Text_Space_1 == <<" ", "1">>
Text_NaN == <<"N", "a", "N">>
Text_NaNish == <<"N", "a", "N", "-", "i", "s", "h">>
Text_PlusInf == <<"+", "I", "n", "f">>
Text_MinusInf == <<"-", "i", "n", "f">>
Text_Hex2 == <<"0", "x", "1", "p", "1">>

\* The payloads the pure processing step is tried on.
PayloadsAll ==
    {Text_1, Text_2, Text_3, Text_0_5, Text_1_5, Text_1_Newline, Text_Space_1, Text_NaN,
     Text_NaNish, Text_PlusInf, Text_MinusInf, Text_Hex2, <<>>}

\* The payloads of the runs with a concurrent refresh.
PayloadsFew == {Text_1_5, Text_3, Text_NaNish}

\* ---------------------------------------------------------- ProcessMessage
Failure(reason) == [err |-> reason, event |-> NoEvent, body |-> NoBody]

\* ProcessMessage with the timestamp left in the local zone.
ProcessMessageNoUTC(meta, payload, clock) ==
    LET p == ParseFloat(payload)
        event == [SensorID |-> meta.ID, Value |-> p.v, Timestamp |-> TimeNow(clock)]
        m == MarshalEvent(event)
    IN  IF ~meta.found THEN Failure("UnknownTopic")
        ELSE IF ~p.ok THEN Failure("MalformedValue")
        ELSE IF meta.MinValue.some /\ FLess(p.v, meta.MinValue.v)
          THEN Failure("OutOfRange")
        ELSE IF meta.MaxValue.some /\ FGreater(p.v, meta.MaxValue.v)
          THEN Failure("OutOfRange")
        ELSE IF ~m.ok THEN Failure("MarshalError")
        ELSE [err |-> "", event |-> event, body |-> m.body]

\* ProcessMessage rejecting a value equal to the lower limit.
ProcessMessageLaxBounds(meta, payload, clock) ==
    LET p == ParseFloat(payload)
        event == [SensorID |-> meta.ID, Value |-> p.v, Timestamp |-> TimeUTC(TimeNow(clock))]
        m == MarshalEvent(event)
    IN  IF ~meta.found THEN Failure("UnknownTopic")
        ELSE IF ~p.ok THEN Failure("MalformedValue")
        ELSE IF meta.MinValue.some /\ ~FGreater(p.v, meta.MinValue.v)
          THEN Failure("OutOfRange")
        ELSE IF meta.MaxValue.some /\ FGreater(p.v, meta.MaxValue.v)
          THEN Failure("OutOfRange")
        ELSE IF ~m.ok THEN Failure("MarshalError")
        ELSE [err |-> "", event |-> event, body |-> m.body]

\* ProcessMessage without the check of the lookup.
ProcessMessageNoLookupCheck(meta, payload, clock) ==
    LET p == ParseFloat(payload)
        event == [SensorID |-> meta.ID, Value |-> p.v, Timestamp |-> TimeUTC(TimeNow(clock))]
        m == MarshalEvent(event)
    IN  IF ~p.ok THEN Failure("MalformedValue")
        ELSE IF ~m.ok THEN Failure("MarshalError")
        ELSE [err |-> "", event |-> event, body |-> m.body]

\* ProcessMessage going on after a parse error.
ProcessMessageParseErrorIgnored(meta, payload, clock) ==
    LET p == ParseFloat(payload)
        event == [SensorID |-> meta.ID, Value |-> p.v, Timestamp |-> TimeUTC(TimeNow(clock))]
        m == MarshalEvent(event)
    IN  IF ~meta.found THEN Failure("UnknownTopic")
        ELSE IF meta.MinValue.some /\ FLess(p.v, meta.MinValue.v)
          THEN Failure("OutOfRange")
        ELSE IF meta.MaxValue.some /\ FGreater(p.v, meta.MaxValue.v)
          THEN Failure("OutOfRange")
        ELSE IF ~m.ok THEN Failure("MarshalError")
        ELSE [err |-> "", event |-> event, body |-> m.body]

\* ProcessMessage from the result `meta` of its GetMetadata call (line 133)
\* on: [err, event, body], err = "" on success.  The reasons name the four
\* error returns: unknown topic (138), not a number (146), below or above
\* the limit (155, 160), and the error of json.Marshal (172).
ProcessMessage(meta, payload, clock) ==
    LET p == ParseFloat(payload)
        event == [SensorID |-> meta.ID, Value |-> p.v, Timestamp |-> TimeUTC(TimeNow(clock))]
        m == MarshalEvent(event)
    IN  IF ~meta.found THEN Failure("UnknownTopic")
        ELSE IF ~p.ok THEN Failure("MalformedValue")
        ELSE IF meta.MinValue.some /\ FLess(p.v, meta.MinValue.v)
          THEN Failure("OutOfRange")
        ELSE IF meta.MaxValue.some /\ FGreater(p.v, meta.MaxValue.v)
          THEN Failure("OutOfRange")
        ELSE IF ~m.ok THEN Failure("MarshalError")
        ELSE [err |-> "", event |-> event, body |-> m.body]

\* ------------------------------------------------------ the publish handler
\* What is recorded of a delivered raw message.
NewMsg(id, topic, payload, outcome) ==
    [id |-> id, topic |-> topic, payload |-> payload, outcome |-> outcome,
     look |-> Absent, reason |-> "", warned |-> "", errorLogged |-> FALSE,
     publishes |-> 0, published |-> 0, event |-> NoEvent, at |-> 0]

NoMsg == NewMsg(0, "", <<>>, "none")

\* Entry of the function literal of main.go 80-101 with a message.
HandlerEnter(id, topic, payload) ==
    /\ msg' = NewMsg(id, topic, payload, "handling")
    /\ cur' = [IdleHandler EXCEPT !.pc = "lookup", !.id = id, !.topic = topic,
                                  !.payload = payload]

\* The broker delivers a raw message of the subscribed tree; the client's
\* router hands it to its default handler, and drops it when it has none
\* (the subscription of line 109 has no callback of its own).
Deliver(topics, payloads) ==
    /\ Alive /\ subscribed /\ cur.pc = "idle" /\ delivered < MaxMsgs
    /\ delivered' = delivered + 1
    /\ \E topic \in topics, payload \in payloads :
         IF routerHandler = "nil"
         THEN /\ msg' = NewMsg(delivered + 1, topic, payload, "noHandler")
              /\ UNCHANGED cur
         ELSE HandlerEnter(delivered + 1, topic, payload)
    /\ UNCHANGED <<mainVars, dbVars, metaVars, refreshVars, outbox, now, storeVars, persistVars,
                   apiVars, extVars>>

\* The function literal of main.go 80-101 called with a message, one call at a
\* time, up to max calls in a run.  The router of the client built at line 24
\* never makes this call (see Deliver); the function is examined by calling it.
HandlerCallUpTo(max, topics, payloads) ==
    /\ Alive /\ cur.pc = "idle" /\ delivered < max
    /\ delivered' = delivered + 1
    /\ \E topic \in topics, payload \in payloads :
         HandlerEnter(delivered + 1, topic, payload)
    /\ UNCHANGED <<mainVars, dbVars, metaVars, refreshVars, outbox, now, storeVars, persistVars,
                   apiVars, extVars>>

HandlerCall(topics, payloads) == HandlerCallUpTo(MaxMsgs, topics, payloads)

\* ProcessMessage, line 133: the lookup in the cache.
HandlerLookup ==
    /\ Alive /\ cur.pc = "lookup"
    /\ cur' = [cur EXCEPT !.pc = "process", !.look = GetMetadata(cache, cur.topic),
                          !.snapshot = complete, !.duringLoad = (loader.pc # "idle")]
    /\ msg' = [msg EXCEPT !.look = GetMetadata(cache, cur.topic)]
    /\ UNCHANGED <<mainVars, dbVars, metaVars, refreshVars, delivered, outbox, now,
                   storeVars, persistVars,
                   apiVars, extVars>>

\* The processing step asking the cache again, after its checks, for the
\* identifier it writes into the event.
HandlerProcessLookingAgain ==
    /\ Alive /\ cur.pc = "process"
    /\ \E t \in now..MaxClock :
         /\ now' = t
         /\ LET r == ProcessMessage(cur.look, cur.payload, t)
                again == GetMetadata(cache, cur.topic)
            IN  IF r.err # ""
                THEN /\ cur' = IdleHandler
                     /\ msg' = [msg EXCEPT !.outcome = "done", !.reason = r.err,
                                           !.warned = cur.topic, !.at = t]
                ELSE LET event == [r.event EXCEPT !.SensorID = again.ID]
                     IN  /\ cur' = [cur EXCEPT !.pc = "publish", !.event = event,
                                                !.body = MarshalEvent(event).body]
                         /\ msg' = [msg EXCEPT !.event = event, !.at = t]
    /\ UNCHANGED <<mainVars, dbVars, metaVars, refreshVars, delivered, outbox, storeVars, persistVars,
                   apiVars, extVars>>

\* ProcessMessage, lines 134-172, reading the clock at line 168, and lines
\* 84-89 of the handler: an error is logged as a warning with the topic and the
\* reason, and the handler returns.
HandlerProcess ==
    /\ Alive /\ cur.pc = "process"
    /\ \E t \in now..MaxClock :
         /\ now' = t
         /\ LET r == ProcessMessage(cur.look, cur.payload, t)
            IN  IF r.err # ""
                THEN /\ cur' = IdleHandler
                     /\ msg' = [msg EXCEPT !.outcome = "done", !.reason = r.err,
                                           !.warned = cur.topic, !.at = t]
                ELSE /\ cur' = [cur EXCEPT !.pc = "publish", !.event = r.event,
                                           !.body = r.body]
                     /\ msg' = [msg EXCEPT !.event = r.event, !.at = t]
    /\ UNCHANGED <<mainVars, dbVars, metaVars, refreshVars, delivered, outbox, storeVars, persistVars,
                   apiVars, extVars>>

\* The handler waiting without end on the token of a publish that failed.
HandlerPublishNoReturn ==
    /\ Alive /\ cur.pc = "publish"
    /\ \E ok \in BOOLEAN :
         /\ outbox' = IF ok
                      THEN Append(outbox, [body |-> cur.body, origin |-> cur.id,
                                           known |-> cur.look.found, event |-> cur.event])
                      ELSE outbox
         /\ msg' = [msg EXCEPT !.outcome = IF ok THEN "done" ELSE @,
                               !.publishes = @ + 1,
                               !.published = IF ok THEN @ + 1 ELSE @]
         /\ cur' = IF ok THEN IdleHandler ELSE [cur EXCEPT !.pc = "wait"]
    /\ UNCHANGED <<mainVars, dbVars, metaVars, refreshVars, delivered, now, storeVars, persistVars,
                   apiVars, extVars>>

\* client.Publish(cfg.OutputTopic, ...) and token.Wait() (lines 92-100): a
\* failed publish is logged as an error, without the topic.  A message on
\* the output topic is recorded with the message it came from, the lookup that
\* admitted it and the event it encodes.
HandlerPublish ==
    /\ Alive /\ cur.pc = "publish"
    /\ \E ok \in BOOLEAN :
         /\ outbox' = IF ok
                      THEN Append(outbox, [body |-> cur.body, origin |-> cur.id,
                                           known |-> cur.look.found, event |-> cur.event])
                      ELSE outbox
         /\ msg' = [msg EXCEPT !.outcome = "done",
                               !.publishes = @ + 1,
                               !.published = IF ok THEN @ + 1 ELSE @,
                               !.errorLogged = ~ok]
    /\ cur' = IdleHandler
    /\ UNCHANGED <<mainVars, dbVars, metaVars, refreshVars, delivered, now, storeVars, persistVars,
                   apiVars, extVars>>

\* ------------------------------------------------------------ the Persister
SensorIds == 1..4
NoValue == [set |-> FALSE, text |-> <<>>, origin |-> 0, known |-> FALSE, expires |-> 0]

\* Durations in clock units: the clock counts milliseconds.
Millisecond == 1
Second == 1000
Minute == 60 * Second
Hour == 60 * Minute
Day == 24 * Hour

\* The lease of a sensor:last:<id> key (24*time.Hour, repository.go line 68).
Lease == 24 * Hour

\* The INSERT on a table without the reference to sensors(id).
InsertRejectedNoReference(sd, event) ==
    \E i \in 1..Len(sd) :
      sd[i].time.instant = event.Timestamp.instant /\ sd[i].id = Len(sd) + 1

\* The INSERT of repository.go line 55 breaks a constraint of the table: the
\* sensor referenced does not exist, or a row has the same primary key
\* (time, id), id being the next value of the table's sequence.
InsertRejected(sd, event) ==
    \/ event.SensorID \notin SensorIds
    \/ \E i \in 1..Len(sd) :
         sd[i].time.instant = event.Timestamp.instant /\ sd[i].id = Len(sd) + 1

\* The table after the INSERT; origin and known tell which raw message the
\* event came from.
InsertRow(sd, event, origin, known) ==
    Append(sd, [id |-> Len(sd) + 1, time |-> event.Timestamp, sensor_id |-> event.SensorID,
                value |-> event.Value, origin |-> origin, known |-> known])

\* redis SET key value EX 24h (line 68): the value as go-redis writes a float64.
SetLast(k, event, clock, origin, known) ==
    [k EXCEPT ![event.SensorID] =
       [set |-> TRUE, text |-> FormatFloat(event.Value), origin |-> origin,
        known |-> known, expires |-> clock + Lease]]

\* SaveMeasurement writing the value to the key-value store whatever the INSERT did.
SaveMeasurementSetAlways(sd, k, event, pgOk, kvOk, clock, origin, known) ==
    IF ~pgOk \/ InsertRejected(sd, event)
    THEN [err |-> "pg", sensor_data |-> sd,
          kv |-> IF event.SensorID \in SensorIds
                 THEN SetLast(k, event, clock, origin, known) ELSE k]
    ELSE IF ~kvOk
    THEN [err |-> "kv", sensor_data |-> InsertRow(sd, event, origin, known), kv |-> k]
    ELSE [err |-> "", sensor_data |-> InsertRow(sd, event, origin, known),
          kv |-> SetLast(k, event, clock, origin, known)]

\* SaveMeasurement taking the row back when the SET fails.
SaveMeasurementUndo(sd, k, event, pgOk, kvOk, clock, origin, known) ==
    IF ~pgOk \/ InsertRejected(sd, event)
    THEN [err |-> "pg", sensor_data |-> sd, kv |-> k]
    ELSE IF ~kvOk
    THEN [err |-> "kv", sensor_data |-> sd, kv |-> k]
    ELSE [err |-> "", sensor_data |-> InsertRow(sd, event, origin, known),
          kv |-> SetLast(k, event, clock, origin, known)]

\* SaveMeasurement inserting the row twice.
SaveMeasurementTwice(sd, k, event, pgOk, kvOk, clock, origin, known) ==
    IF ~pgOk \/ InsertRejected(sd, event)
    THEN [err |-> "pg", sensor_data |-> sd, kv |-> k]
    ELSE IF ~kvOk
    THEN [err |-> "kv", sensor_data |-> InsertRow(sd, event, origin, known), kv |-> k]
    ELSE [err |-> "",
          sensor_data |-> InsertRow(InsertRow(sd, event, origin, known), event, origin, known),
          kv |-> SetLast(k, event, clock, origin, known)]

\* SaveMeasurement writing every sensor's value under one key, the key of
\* the first sensor.
SaveMeasurementOneKey(sd, k, event, pgOk, kvOk, clock, origin, known) ==
    IF ~pgOk \/ InsertRejected(sd, event)
    THEN [err |-> "pg", sensor_data |-> sd, kv |-> k]
    ELSE IF ~kvOk
    THEN [err |-> "kv", sensor_data |-> InsertRow(sd, event, origin, known), kv |-> k]
    ELSE [err |-> "", sensor_data |-> InsertRow(sd, event, origin, known),
          kv |-> SetLast(k, [event EXCEPT !.SensorID = 1], clock, origin, known)]

\* Repository.SaveMeasurement (repository.go 50-76) on the table sd and the
\* key-value store k: [err, sensor_data, kv].  The INSERT first; its error is
\* returned at once (57-60).  Then the SET; its error is returned, the row
\* staying (68-73).
SaveMeasurement(sd, k, event, pgOk, kvOk, clock, origin, known) ==
    IF ~pgOk \/ InsertRejected(sd, event)
    THEN [err |-> "pg", sensor_data |-> sd, kv |-> k]
    ELSE IF ~kvOk
    THEN [err |-> "kv", sensor_data |-> InsertRow(sd, event, origin, known), kv |-> k]
    ELSE [err |-> "", sensor_data |-> InsertRow(sd, event, origin, known),
          kv |-> SetLast(k, event, clock, origin, known)]

NoSave == [n |-> 0, body |-> NoBody, decoded |-> FALSE, event |-> NoEvent, err |-> "",
           logged |-> "", rowsBefore |-> 0, kvBefore |-> [i \in SensorIds |-> NoValue],
           at |-> 0]
NoResponse == [kind |-> "none"]

\* The Persister's handler on the next message of events/+ : decode, then
\* SaveMeasurement: the INSERT, and if it succeeded the SET of sensor:last:<id>.
PersistEvent ==
    /\ Len(outbox) > 0
    /\ LET m == Head(outbox)
           u == UnmarshalEvent(m.body)
       IN  /\ outbox' = Tail(outbox)
           /\ IF ~u.ok THEN UNCHANGED storeVars
              ELSE \E pgOk \in BOOLEAN, kvOk \in BOOLEAN :
                     LET r == SaveMeasurement(sensor_data, kv, u.event, pgOk, kvOk, now,
                                              m.origin, m.known)
                     IN  /\ sensor_data' = r.sensor_data
                         /\ kv' = r.kv
    /\ UNCHANGED <<mainVars, dbVars, metaVars, refreshVars, handlerVars, now, persistVars,
                   apiVars, extVars>>

\* An event as a publisher on events/+ encodes it.
EventAt(id, v, t) ==
    [SensorID |-> id, Value |-> v, Timestamp |-> [instant |-> t, loc |-> "UTC"]]

EventBody(id, v, t) == MarshalEvent(EventAt(id, v, t)).body

\* A payload that is no SensorEvent: the value is not a number.
MalformedBody == [sensor_id |-> <<"1">>, value |-> <<"x">>, timestamp |-> <<"0", "Z">>]

\* The Persister's handler (data-persister/main.go 39-57) on a message of
\* events/+ : a payload that does not decode is logged and skipped; else
\* SaveMeasurement, its error logged.  lastSave records the call.
PersisterHandle(bodies) ==
    /\ saves < MaxSaves
    /\ saves' = saves + 1
    /\ \E body \in bodies :
         LET u == UnmarshalEvent(body)
             call == [n |-> saves + 1, body |-> body, decoded |-> u.ok, event |-> u.event,
                      err |-> "decode", logged |-> "error", rowsBefore |-> Len(sensor_data),
                      kvBefore |-> kv, at |-> now]
         IN  IF ~u.ok
             THEN /\ lastSave' = call
                  /\ UNCHANGED storeVars
             ELSE \E pgOk \in BOOLEAN, kvOk \in BOOLEAN :
                    LET r == SaveMeasurement(sensor_data, kv, u.event, pgOk, kvOk, now, 0, TRUE)
                    IN  /\ sensor_data' = r.sensor_data
                        /\ kv' = r.kv
                        /\ lastSave' = [call EXCEPT !.err = r.err,
                                          !.logged = IF r.err = "" THEN "debug" ELSE "error"]
    /\ UNCHANGED <<mainVars, dbVars, metaVars, refreshVars, handlerVars, outbox, now, apiVars, extVars>>

\* Time passes: the wall clock reaches a later one of the instants.
ClockAdvance(instants) ==
    /\ \E t \in instants : t > now /\ now' = t
    /\ UNCHANGED <<mainVars, dbVars, metaVars, refreshVars, handlerVars, outbox, storeVars,
                   persistVars, apiVars, extVars>>

\* ------------------------------------------------- main (Persister)
\* Messages the Persister's client hands to the handler in a run with a
\* shutdown.
MaxFlights == 1

NoFlight == [pc |-> "idle", n |-> 0, event |-> NoEvent, afterSignal |-> FALSE,
             client |-> "", ops |-> <<>>, err |-> ""]

\* main after its startup (data-persister/main.go 23-70): both stores
\* connected, the client connected and subscribed, main waiting on sigChan.
PersisterMainInit ==
    /\ persMain = [pc |-> "running", client |-> "connected", pgPool |-> "open",
                   redis |-> "open"]
    /\ persFlight = NoFlight

\* A store operation of the handler as it ran: which one, and the state of
\* the two stores and of the client at that moment.
StoreOp(op, err) ==
    [op |-> op, err |-> err, pgPool |-> persMain.pgPool, redis |-> persMain.redis,
     client |-> persMain.client, main |-> persMain.pc]

\* The client hands a message of events/+ to the handler (lines 39-45): as
\* long as the client is connected, whatever main is doing; a payload that
\* does not decode is logged and the handler returns.
PersisterDeliver(bodies) ==
    /\ persMain.pc # "exited" /\ persMain.client = "connected"
    /\ persFlight.pc \in {"idle", "done"} /\ persFlight.n < MaxFlights
    /\ \E body \in bodies :
         LET u == UnmarshalEvent(body)
         IN  persFlight' = [NoFlight EXCEPT !.n = persFlight.n + 1,
                              !.pc = IF u.ok THEN "insert" ELSE "done",
                              !.event = u.event,
                              !.err = IF u.ok THEN "" ELSE "decode",
                              !.afterSignal = (persMain.pc # "running")]
    /\ UNCHANGED <<pipelineVars, monVars, logVars, sideVars, persMain>>

\* SaveMeasurement, the INSERT (repository.go 55-60) under the context of
\* 5 s: on a closed pool Exec fails; else it fails or writes the row.
PersisterInsert ==
    /\ persMain.pc # "exited" /\ persFlight.pc = "insert"
    /\ \E pgOk \in BOOLEAN :
         LET failed == persMain.pgPool = "closed" \/ ~pgOk
                          \/ InsertRejected(sensor_data, persFlight.event)
         IN  /\ (persMain.pgPool = "closed") => pgOk
             /\ sensor_data' = IF failed THEN sensor_data
                                ELSE InsertRow(sensor_data, persFlight.event, 0, TRUE)
             /\ persFlight' = [persFlight EXCEPT
                                 !.pc = IF failed THEN "done" ELSE "set",
                                 !.err = IF failed THEN "pg" ELSE "",
                                 !.ops = Append(@, StoreOp("insert", IF failed THEN "pg" ELSE ""))]
    /\ UNCHANGED <<mainVars, dbVars, metaVars, refreshVars, handlerVars, outbox, now, kv,
                   persistVars, apiVars, monVars, logVars, sideVars, persMain>>

\* SaveMeasurement, the SET (repository.go 65-73): on a closed client it
\* fails; else it fails or writes the entry.  The error is logged (main.go
\* 51-52) and the handler returns.
PersisterSet ==
    /\ persMain.pc # "exited" /\ persFlight.pc = "set"
    /\ \E kvOk \in BOOLEAN :
         LET failed == persMain.redis = "closed" \/ ~kvOk
         IN  /\ (persMain.redis = "closed") => kvOk
             /\ kv' = IF failed THEN kv ELSE SetLast(kv, persFlight.event, now, 0, TRUE)
             /\ persFlight' = [persFlight EXCEPT
                                 !.pc = "done",
                                 !.err = IF failed THEN "kv" ELSE "",
                                 !.ops = Append(@, StoreOp("set", IF failed THEN "kv" ELSE ""))]
    /\ UNCHANGED <<mainVars, dbVars, metaVars, refreshVars, handlerVars, outbox, now,
                   sensor_data, persistVars, apiVars, monVars, logVars, sideVars, persMain>>

\* SIGINT or SIGTERM arrives: main leaves <-sigChan (line 75), logs and
\* returns into its deferred calls.
PersisterSignal ==
    /\ persMain.pc = "running"
    /\ persMain' = [persMain EXCEPT !.pc = "disconnect"]
    /\ UNCHANGED <<pipelineVars, monVars, logVars, sideVars, persFlight>>

\* defer client.Disconnect(250) (line 64), the first deferred call to run:
\* the connection is closed after at most 250 ms; a handler call in progress
\* is not waited for.
PersisterDisconnect ==
    /\ persMain.pc = "disconnect"
    /\ persMain' = [persMain EXCEPT !.pc = "closePool", !.client = "disconnected"]
    /\ UNCHANGED <<pipelineVars, monVars, logVars, sideVars, persFlight>>

\* defer repo.Close() (line 30), r.pgPool.Close() (repository.go 45): the
\* pool is closed once no connection is in use, that is between two store
\* operations of the handler.
PersisterClosePool ==
    /\ persMain.pc = "closePool"
    /\ persMain' = [persMain EXCEPT !.pc = "closeRedis", !.pgPool = "closed"]
    /\ UNCHANGED <<pipelineVars, monVars, logVars, sideVars, persFlight>>

\* r.redis.Close() (repository.go 46).
PersisterCloseRedis ==
    /\ persMain.pc = "closeRedis"
    /\ persMain' = [persMain EXCEPT !.pc = "exit", !.redis = "closed"]
    /\ UNCHANGED <<pipelineVars, monVars, logVars, sideVars, persFlight>>

\* main returns (line 79): the process ends, and with it a handler call
\* that is still running.
PersisterExit ==
    /\ persMain.pc = "exit"
    /\ persMain' = [persMain EXCEPT !.pc = "exited"]
    /\ persFlight' = IF persFlight.pc \in {"idle", "done"} THEN persFlight
                     ELSE [persFlight EXCEPT !.pc = "killed"]
    /\ UNCHANGED <<pipelineVars, monVars, logVars, sideVars>>

\* ------------------------------------------------------------ the Read API
\* First index from i on at which s has no decimal digit (Len(s) + 1 at the end).
RECURSIVE DigitsEnd(_, _)
DigitsEnd(s, i) ==
    IF i > Len(s) \/ DecDigit(s[i]) < 0 THEN i ELSE DigitsEnd(s, i + 1)

\* First index from i on at which s has a digit or a point: the end of a unit.
RECURSIVE UnitEnd(_, _)
UnitEnd(s, i) ==
    IF i > Len(s) \/ DecDigit(s[i]) >= 0 \/ s[i] = "." THEN i ELSE UnitEnd(s, i + 1)

\* The digits of s from a up to b - 1 as a number, 0 when there are none.
NatOf(s, a, b) == CharsToNat(SubSeq(s, a, b - 1), 0)

\* unitMap of package time: the unit as num/den clock units, num = -1 for a
\* text that is no unit.  There is no unit for days.
UnitOf(u) ==
    CASE u = <<"h">> -> [num |-> Hour, den |-> 1]
      [] u = <<"m">> -> [num |-> Minute, den |-> 1]
      [] u = <<"s">> -> [num |-> Second, den |-> 1]
      [] u = <<"m", "s">> -> [num |-> Millisecond, den |-> 1]
      [] u = <<"u", "s">> -> [num |-> Millisecond, den |-> 1000]
      [] u = <<"n", "s">> -> [num |-> Millisecond, den |-> 1000000]
      [] OTHER -> [num |-> -1, den |-> 1]

\* The loop of time.ParseDuration over the terms <number><unit> of s from
\* index i on, acc the sum so far: [ok, d].
RECURSIVE DurationTerms(_, _, _)
DurationTerms(s, i, acc) ==
    IF i > Len(s) THEN [ok |-> TRUE, d |-> acc]
    ELSE LET a == DigitsEnd(s, i)
             dot == a <= Len(s) /\ s[a] = "."
             b == IF dot THEN DigitsEnd(s, a + 1) ELSE a
             c == UnitEnd(s, b)
             unit == UnitOf(SubSeq(s, b, c - 1))
             whole == NatOf(s, i, a)
             frac == IF dot THEN NatOf(s, a + 1, b) ELSE 0
             scale == IF dot THEN Pow(10, b - a - 1) ELSE 1
             bad == [ok |-> FALSE, d |-> 0]
         IN  IF ~(s[i] = "." \/ DecDigit(s[i]) >= 0) THEN bad
             ELSE IF a = i /\ ~(dot /\ b > a + 1) THEN bad
             ELSE IF c = b THEN bad
             ELSE IF unit.num < 0 THEN bad
             ELSE DurationTerms(s, c,
                    acc + (whole * unit.num) \div unit.den
                        + (frac * unit.num) \div (scale * unit.den))

\* time.ParseDuration(s): [ok, d], d in clock units.
ParseDuration(s) ==
    LET signed == Len(s) > 0 /\ s[1] \in {"-", "+"}
        rest == IF signed THEN Tail(s) ELSE s
        r == CHOOSE x \in { y : y \in {DurationTerms(rest, 1, 0)} } : TRUE
    IN  IF rest = <<"0">> THEN [ok |-> TRUE, d |-> 0]
        ELSE IF rest = <<>> THEN [ok |-> FALSE, d |-> 0]
        ELSE IF signed /\ s[1] = "-" THEN [ok |-> r.ok, d |-> -r.d]
        ELSE r

\* The decimal digits of s without its leading zeros.
RECURSIVE StripZeros(_)
StripZeros(s) == IF Len(s) > 1 /\ s[1] = "0" THEN StripZeros(Tail(s)) ELSE s

\* Digit sequences of equal length: a <= b.
RECURSIVE DigitsLeq(_, _)
DigitsLeq(a, b) ==
    IF Len(a) = 0 THEN TRUE
    ELSE IF DecDigit(a[1]) # DecDigit(b[1]) THEN DecDigit(a[1]) < DecDigit(b[1])
    ELSE DigitsLeq(Tail(a), Tail(b))

MaxInt64Digits ==
    <<"9", "2", "2", "3", "3", "7", "2", "0", "3", "6", "8", "5", "4", "7", "7", "5", "8", "0", "7">>
MinInt64Digits ==
    <<"9", "2", "2", "3", "3", "7", "2", "0", "3", "6", "8", "5", "4", "7", "7", "5", "8", "0", "8">>

\* strconv.ParseInt(s, 10, 64): [ok, v]; an optional sign, then decimal digits
\* only, the number within int64 (v is worked out for numbers of up to nine
\* digits).
ParseInt(s) ==
    LET signed == Len(s) > 0 /\ s[1] \in {"-", "+"}
        neg == signed /\ s[1] = "-"
        digits == IF signed THEN Tail(s) ELSE s
        t == StripZeros(digits)
        fits == \/ Len(t) < 19
                \/ Len(t) = 19 /\ DigitsLeq(t, IF neg THEN MinInt64Digits ELSE MaxInt64Digits)
    IN  IF ~AllDigits(digits) \/ ~fits THEN [ok |-> FALSE, v |-> 0]
        ELSE [ok |-> TRUE, v |-> (IF neg THEN -1 ELSE 1) * CharsToNat(t, 0)]

\* The topic of the sensor with this identifier.
TopicOf(id) == CHOOSE t \in SensorTopics : SensorRow(t).ID = id

\* The rows of the query of GetAllSensors (service.go 30-36): the active
\* sensors, ORDER BY s.id ASC.
RECURSIVE ActiveById(_, _)
ActiveById(active, from) ==
    IF from > 4 THEN <<>>
    ELSE (IF TopicOf(from) \in active THEN <<from>> ELSE <<>>) \o ActiveById(active, from + 1)

\* redis GET sensor:last:<id> at time clock: [err, text], err "" for a value,
\* "nil" when there is no key or its lease has run out, "transport" when the
\* store cannot be reached.
KvGet(k, id, clock, reachable) ==
    IF ~reachable THEN [err |-> "transport", text |-> <<>>]
    ELSE IF id \in DOMAIN k /\ k[id].set /\ clock < k[id].expires
    THEN [err |-> "", text |-> k[id].text]
    ELSE [err |-> "nil", text |-> <<>>]

\* dto.CurrentValue reported as zero when the lookup gives no value.
CurrentValueZeroDefault(version, g) ==
    IF g.err # "" THEN Some(Fin(0)) ELSE Some(ParseFloat(g.text).v)

\* dto.CurrentValue after the lookup.  The service of lines 27-71 (version 1)
\* takes whatever ParseFloat returns when the GET gave a text (60-66); the
\* service of lines 147-202 (version 2) sets the value only when the text
\* parses (177-195).
CurrentValue(version, g) ==
    IF g.err # "" THEN None
    ELSE IF version = 1 THEN Some(ParseFloat(g.text).v)
    ELSE IF ParseFloat(g.text).ok THEN Some(ParseFloat(g.text).v)
    ELSE None

\* json encoding of the field current_value (*float64).
EncodeCurrentValue(cv) == IF cv.some THEN FormatFloat(cv.v) ELSE <<"n", "u", "l", "l">>

\* GetAllSensors: [err, sensors].  The query may fail; the loop reads the
\* first `read` rows, rows.Next() ending it early on a read error that is
\* never asked for; a Scan error returns the error; the GET of the sensors
\* in `down` fails with a transport error.
GetAllSensors(version, active, k, clock, queryOk, scanOk, read, down) ==
    LET rows == ActiveById(active, 1)
    IN  IF ~queryOk THEN [err |-> "query", sensors |-> <<>>]
        ELSE IF ~scanOk /\ read > 0 THEN [err |-> "scan", sensors |-> <<>>]
        ELSE [err |-> "",
              sensors |-> [i \in 1..read |->
                 [ID |-> rows[i], Topic |-> TopicOf(rows[i]),
                  CurrentValue |-> CurrentValue(version,
                                     KvGet(k, rows[i], clock, rows[i] \notin down))]]]

\* handleListSensors (api.go 34-54): 500 on an error of the service, else the
\* list encoded as JSON, a list without elements being the nil slice.
HandleListSensors(version, active, k, clock, queryOk, scanOk, read, down) ==
    LET r == GetAllSensors(version, active, k, clock, queryOk, scanOk, read, down)
    IN  [status |-> IF r.err = "" THEN 200 ELSE 500, err |-> r.err,
         sensors |-> r.sensors,
         json |-> IF r.err # "" THEN "error" ELSE IF Len(r.sensors) = 0 THEN "null" ELSE "array",
         encoded |-> [i \in 1..Len(r.sensors) |-> EncodeCurrentValue(r.sensors[i].CurrentValue)]]

\* GET /api/sensors served.
ApiListSensors ==
    /\ requests < MaxRequests
    /\ requests' = requests + 1
    /\ \E version \in {1, 2}, queryOk \in BOOLEAN, scanOk \in BOOLEAN,
          read \in 0..Len(ActiveById(dbActive, 1)),
          down \in SUBSET {SensorRow(t).ID : t \in dbActive} :
         /\ (~queryOk \/ ~scanOk) => (read = Len(ActiveById(dbActive, 1)) /\ down = {})
         /\ ~queryOk => scanOk
         /\ down \subseteq {ActiveById(dbActive, 1)[i] : i \in 1..read}
         /\ resp' = HandleListSensors(version, dbActive, kv, now, queryOk, scanOk, read, down)
                      @@ [kind |-> "list", at |-> now, saves |-> saves, active |-> dbActive,
                          kv |-> kv, read |-> read, down |-> down]
    /\ UNCHANGED <<mainVars, dbVars, metaVars, refreshVars, handlerVars, outbox, now, storeVars,
                   persistVars, extVars>>

\* The rows of sd among the indices idx, ORDER BY time ASC (rows of equal time
\* in the order of their insertion), as HistoryPoints.
RECURSIVE PointsInOrder(_, _)
PointsInOrder(sd, idx) ==
    IF idx = {} THEN <<>>
    ELSE LET i == CHOOSE j \in idx :
                    \A l \in idx : \/ sd[j].time.instant < sd[l].time.instant
                                   \/ sd[j].time.instant = sd[l].time.instant /\ j <= l
         IN  <<[Time |-> sd[i].time.instant, Value |-> sd[i].value]>>
               \o PointsInOrder(sd, idx \ {i})

\* WHERE sensor_id = $1 AND time >= $2 (service.go 87-92).
HistoryRows(sd, sensorID, startTime) ==
    {i \in 1..Len(sd) : sd[i].sensor_id = sensorID /\ sd[i].time.instant >= startTime}

\* GetHistory (service.go 75-114 and 205-259, alike): [err, queried, points].
\* The duration is parsed, startTime = now(UTC) - dur, the query may fail,
\* the loop reads at most `read` rows (rows.Next() ending it early on a read
\* error that is never asked for), a Scan error returns the error.
GetHistory(sd, sensorID, durationStr, clock, queryOk, scanOk, read) ==
    LET dur == ParseDuration(durationStr)
        all == PointsInOrder(sd, HistoryRows(sd, sensorID, clock - dur.d))
        n == IF read < Len(all) THEN read ELSE Len(all)
    IN  IF ~dur.ok THEN [err |-> "duration", queried |-> FALSE, points |-> <<>>]
        ELSE IF ~queryOk THEN [err |-> "query", queried |-> TRUE, points |-> <<>>]
        ELSE IF ~scanOk /\ n > 0 THEN [err |-> "scan", queried |-> TRUE, points |-> <<>>]
        ELSE [err |-> "", queried |-> TRUE, points |-> SubSeq(all, 1, n)]

\* The default of the query parameter range (api.go 69-71).
DefaultRange == <<"2", "4", "h">>

\* handleGetHistory calling GetHistory whatever the id is.
HandleGetHistoryAnyId(sd, idStr, rangeParam, clock, queryOk, scanOk, read) ==
    LET id == ParseInt(idStr)
        range == IF rangeParam = <<>> THEN DefaultRange ELSE rangeParam
        r == GetHistory(sd, id.v, range, clock, queryOk, scanOk, read)
    IN  IF r.err # ""
        THEN [status |-> 500, called |-> TRUE, idOk |-> id.ok, id |-> id.v, range |-> range,
              err |-> r.err, queried |-> r.queried, json |-> "error", points |-> <<>>]
        ELSE [status |-> 200, called |-> TRUE, idOk |-> id.ok, id |-> id.v, range |-> range,
              err |-> "", queried |-> TRUE, json |-> "array", points |-> r.points]

\* handleGetHistory (api.go 57-83): 400 when the id is no integer; the range
\* defaults to 24h; every error of GetHistory is answered with 500; else the
\* points encoded as a JSON array.
HandleGetHistory(sd, idStr, rangeParam, clock, queryOk, scanOk, read) ==
    LET id == ParseInt(idStr)
        range == IF rangeParam = <<>> THEN DefaultRange ELSE rangeParam
        r == GetHistory(sd, id.v, range, clock, queryOk, scanOk, read)
    IN  IF ~id.ok
        THEN [status |-> 400, called |-> FALSE, idOk |-> FALSE, id |-> 0, range |-> <<>>,
              err |-> "id", queried |-> FALSE, json |-> "error", points |-> <<>>]
        ELSE IF r.err # ""
        THEN [status |-> 500, called |-> TRUE, idOk |-> TRUE, id |-> id.v, range |-> range,
              err |-> r.err, queried |-> r.queried, json |-> "error", points |-> <<>>]
        ELSE [status |-> 200, called |-> TRUE, idOk |-> TRUE, id |-> id.v, range |-> range,
              err |-> "", queried |-> TRUE, json |-> "array", points |-> r.points]

\* GET /api/sensors/{id}/history?range=... served.
ApiHistory(ids, ranges) ==
    /\ requests < MaxRequests
    /\ requests' = requests + 1
    /\ \E idStr \in ids, rangeParam \in ranges, queryOk \in BOOLEAN, scanOk \in BOOLEAN,
          read \in 0..Len(sensor_data) :
         LET r == HandleGetHistory(sensor_data, idStr, rangeParam, now, queryOk, scanOk, read)
         IN  /\ (~queryOk \/ ~scanOk) => read = Len(sensor_data)
             /\ ~queryOk => scanOk
             /\ resp' = r @@ [kind |-> "history", idStr |-> idStr, rangeParam |-> rangeParam,
                              at |-> now, rows |-> Len(sensor_data)]
    /\ UNCHANGED <<mainVars, dbVars, metaVars, refreshVars, handlerVars, outbox, now, storeVars,
                   persistVars, extVars>>

\* ------------------------------------------------------------ the Monitor
\* Ticks of the Monitor's ticker in a run.
MaxTicks == 1

\* The metrics CollectStats reads, and the readings of a host.
Metrics == {"cpu", "ram", "procs", "disk"}
Readings ==
    [CPULoad |-> ParseFloat(<<"1", "2", ".", "5">>).v, RamUsedMB |-> ParseFloat(<<"1">>).v,
     RamTotalMB |-> ParseFloat(<<"2">>).v, AppRamUsedMB |-> ParseFloat(<<"0", ".", "5">>).v,
     DiskUsedGB |-> ParseFloat(<<"1", ".", "5">>).v, DiskTotalGB |-> ParseFloat(<<"3">>).v]

\* &SystemStats{} (part_001 line 75): every field zero.
ZeroStats ==
    [CPULoad |-> Fin(0), RamUsedMB |-> Fin(0), RamTotalMB |-> Fin(0), AppRamUsedMB |-> Fin(0),
     DiskUsedGB |-> Fin(0), DiskTotalGB |-> Fin(0)]

\* CollectStats (part_001 73-179) when the reads of the metrics in `failed`
\* fail: [err, logged, stats].  A failed read of CPU, RAM or disk is logged
\* (lines 91, 115, 175) and leaves its fields zero; the error of
\* process.Processes() is dropped (line 134) and the sum is over no process;
\* the function returns nil as its error in every case (line 178).
CollectStats(failed) ==
    [err |-> "",
     logged |-> failed \ {"procs"},
     stats |->
       [CPULoad |-> IF "cpu" \in failed THEN Fin(0) ELSE Readings.CPULoad,
        RamUsedMB |-> IF "ram" \in failed THEN Fin(0) ELSE Readings.RamUsedMB,
        RamTotalMB |-> IF "ram" \in failed THEN Fin(0) ELSE Readings.RamTotalMB,
        AppRamUsedMB |-> IF "procs" \in failed THEN Fin(0) ELSE Readings.AppRamUsedMB,
        DiskUsedGB |-> IF "disk" \in failed THEN Fin(0) ELSE Readings.DiskUsedGB,
        DiskTotalGB |-> IF "disk" \in failed THEN Fin(0) ELSE Readings.DiskTotalGB]]

\* The publishes of one sample in the order of the code (part_000 71-76 and
\* 101-109).
SampleTopics ==
    <<"/msh/system/cpu", "/msh/system/ram_used", "/msh/system/ram_total",
      "/msh/system/app_ram", "/msh/system/disk_used", "/msh/system/disk_total">>

StatOf(stats, i) ==
    CASE i = 1 -> stats.CPULoad [] i = 2 -> stats.RamUsedMB [] i = 3 -> stats.RamTotalMB
      [] i = 4 -> stats.AppRamUsedMB [] i = 5 -> stats.DiskUsedGB [] OTHER -> stats.DiskTotalGB

\* fmt.Sprintf("%.2f", value) (line 54) on a finite value: two decimal places,
\* the value rounded to the nearest hundredth.
Sprintf2(v) ==
    LET a == IF v.n < 0 THEN -v.n ELSE v.n
        h == (a * 100 + Scale \div 2) \div Scale
    IN  (IF v.n < 0 /\ h > 0 THEN <<"-">> ELSE <<>>) \o NatToChars(h \div 100)
          \o <<".", DigitChar((h \div 10) % 10), DigitChar(h % 10)>>

\* The sample at startup publishing ram_total and disk_total not at all.
SamplePublishFour(task, log, sample, client) ==
    LET i == task.next
        skip == i \in {3, 6}
    IN  [task |-> [task EXCEPT !.pc = IF i = 6 THEN "done" ELSE "publish", !.next = i + 1],
         log |-> IF skip THEN log
                 ELSE [log EXCEPT ![sample] =
                         Append(@, [topic |-> SampleTopics[i],
                                    payload |-> Sprintf2(StatOf(task.stats, i)),
                                    sent |-> client = "connected"])]]

\* The next call of the closure publish (lines 52-62) for the sample of a
\* task: client.Publish of the value with two decimals on the next topic, the
\* token waited for and its error never looked at.  After the sixth the task
\* is done with the sample.
SamplePublish(task, log, sample, client) ==
    LET i == task.next
    IN  [task |-> [task EXCEPT !.pc = IF i = 6 THEN "done" ELSE "publish", !.next = i + 1],
         log |-> [log EXCEPT ![sample] =
                    Append(@, [topic |-> SampleTopics[i],
                               payload |-> Sprintf2(StatOf(task.stats, i)),
                               sent |-> client = "connected"])]]

\* The sets of metrics that fail in one sample.
FailureSets == {{}, {"cpu"}, {"ram"}, {"procs"}, {"disk"}, Metrics}

\* A task of the Monitor that is not sampling.
TaskAt(pc) == [pc |-> pc, n |-> 0, next |-> 1, failed |-> {}, logged |-> {}, stats |-> ZeroStats]

\* The process of the Monitor has not exited.
MonitorAlive == monMain.pc # "exited"

\* The Monitor at line 82: connected, the ticker running, the goroutine of
\* the first sample started (line 67), main entering its loop.
MonitorInit ==
    /\ monMain = TaskAt("wait")
    /\ monStart = TaskAt("collect")
    /\ monTicker = [fired |-> 0, pending |-> FALSE, dropped |-> 0]
    /\ monSignal = FALSE
    /\ monClient = "connected"
    /\ monPublished = [s \in 0..MaxTicks |-> <<>>]

\* The ticker fires: the tick waits in ticker.C, whose buffer holds one; a tick
\* that finds it full is dropped.
TickFire ==
    /\ monMain.pc \in {"wait", "collect", "publish", "done"}
    /\ monTicker.fired < MaxTicks
    /\ monTicker' = [fired |-> monTicker.fired + 1, pending |-> TRUE,
                     dropped |-> monTicker.dropped + IF monTicker.pending THEN 1 ELSE 0]
    /\ UNCHANGED <<pipelineVars, logVars, shutVars, sideVars, monMain, monStart, monSignal, monClient, monPublished>>

\* SIGINT or SIGTERM arrives (line 48).
MonitorSignal ==
    /\ MonitorAlive /\ ~monSignal
    /\ monSignal' = TRUE
    /\ UNCHANGED <<pipelineVars, logVars, shutVars, sideVars, monMain, monStart, monTicker, monClient, monPublished>>

\* The goroutine of lines 67-78 calls CollectStats and, on a nil error, goes
\* on to publish.
StartCollect ==
    /\ MonitorAlive /\ monStart.pc = "collect"
    /\ \E failed \in FailureSets :
         LET r == CollectStats(failed)
         IN  monStart' = [monStart EXCEPT !.pc = IF r.err = "" THEN "publish" ELSE "done",
                                          !.failed = failed, !.logged = r.logged,
                                          !.stats = r.stats]
    /\ UNCHANGED <<pipelineVars, logVars, shutVars, sideVars, monMain, monTicker, monSignal, monClient, monPublished>>

\* The goroutine's next publish (lines 71-76).
StartPublish ==
    /\ MonitorAlive /\ monStart.pc = "publish"
    /\ LET r == SamplePublish(monStart, monPublished, 0, monClient)
       IN  /\ monStart' = r.task
           /\ monPublished' = r.log
    /\ UNCHANGED <<pipelineVars, logVars, shutVars, sideVars, monMain, monTicker, monSignal, monClient>>

\* case <-ticker.C (line 90): main takes the tick and calls CollectStats.
MainTick ==
    /\ monMain.pc \in {"wait", "done"} /\ monTicker.pending
    /\ monTicker' = [monTicker EXCEPT !.pending = FALSE]
    /\ monMain' = [TaskAt("collect") EXCEPT !.n = monMain.n + 1]
    /\ UNCHANGED <<pipelineVars, logVars, shutVars, sideVars, monStart, monSignal, monClient, monPublished>>

\* CollectStats returns to main (lines 93-97): on an error the cycle is given
\* up until the next tick, else main goes on to publish.
MainCollect ==
    /\ monMain.pc = "collect"
    /\ \E failed \in FailureSets :
         LET r == CollectStats(failed)
         IN  monMain' = [monMain EXCEPT !.pc = IF r.err = "" THEN "publish" ELSE "wait",
                                        !.failed = failed, !.logged = r.logged,
                                        !.stats = r.stats]
    /\ UNCHANGED <<pipelineVars, logVars, shutVars, sideVars, monStart, monTicker, monSignal, monClient, monPublished>>

\* Main's next publish (lines 101-109).
MainPublish ==
    /\ monMain.pc = "publish"
    /\ LET r == SamplePublish(monMain, monPublished, monMain.n, monClient)
       IN  /\ monMain' = r.task
           /\ monPublished' = r.log
    /\ UNCHANGED <<pipelineVars, logVars, shutVars, sideVars, monStart, monTicker, monSignal, monClient>>

\* case <-sigChan (lines 85-87): main returns; the deferred ticker.Stop()
\* runs, then the deferred client.Disconnect(250) is next.
MainReturn ==
    /\ monMain.pc \in {"wait", "done"} /\ monSignal
    /\ monMain' = [monMain EXCEPT !.pc = "disconnect"]
    /\ UNCHANGED <<pipelineVars, logVars, shutVars, sideVars, monStart, monTicker, monSignal, monClient, monPublished>>

\* client.Disconnect(250) (line 38).
MainDisconnect ==
    /\ monMain.pc = "disconnect"
    /\ monClient' = "disconnected"
    /\ monMain' = [monMain EXCEPT !.pc = "exit"]
    /\ UNCHANGED <<pipelineVars, logVars, shutVars, sideVars, monStart, monTicker, monSignal, monPublished>>

\* main has returned: the process ends, and with it the goroutine wherever
\* it is.
MainExit ==
    /\ monMain.pc = "exit"
    /\ monMain' = [monMain EXCEPT !.pc = "exited"]
    /\ monStart' = IF monStart.pc = "done" THEN monStart ELSE [monStart EXCEPT !.pc = "killed"]
    /\ UNCHANGED <<pipelineVars, logVars, shutVars, sideVars, monTicker, monSignal, monClient, monPublished>>

\* ------------------------------------------------------ the Log Collector
\* Messages the Log Collector handles in a run.
MaxLogs == 2

\* strings.Split(topic, "/") (log-collector/main.go 46): the segments between
\* the slashes, empty ones included; cur is the segment being read.
RECURSIVE SplitFrom(_, _, _)
SplitFrom(s, i, seg) ==
    IF i > Len(s) THEN <<seg>>
    ELSE IF s[i] = "/" THEN <<seg>> \o SplitFrom(s, i + 1, <<>>)
    ELSE SplitFrom(s, i + 1, Append(seg, s[i]))

Split(topic) == SplitFrom(topic, 1, <<>>)

\* A file of the log directory that does not exist.
NoFile == [exists |-> FALSE, content |-> <<>>]

\* appendLogToFile writing a payload without the newline.
appendLogToFileNoNewline(files, serviceName, data, openOk, written, newlineOk) ==
    LET old == files[serviceName]
    IN  IF ~openOk THEN [err |-> "open", files |-> files]
        ELSE IF written < Len(data)
        THEN [err |-> "write",
              files |-> [files EXCEPT ![serviceName] =
                           [exists |-> TRUE, content |-> old.content \o SubSeq(data, 1, written)]]]
        ELSE [err |-> "",
              files |-> [files EXCEPT ![serviceName] =
                           [exists |-> TRUE, content |-> old.content \o data]]]

\* appendLogToFile (lines 91-115) on the files of LogDir, keyed by service
\* name: [err, files].  The file <serviceName>.log is opened with
\* O_APPEND|O_CREATE|O_WRONLY; openOk tells whether that succeeds, written how
\* many bytes of data f.Write puts out (fewer than Len(data) is its error),
\* newlineOk whether the newline is written.
appendLogToFile(files, serviceName, data, openOk, written, newlineOk) ==
    LET old == files[serviceName]
    IN  IF ~openOk THEN [err |-> "open", files |-> files]
        ELSE IF written < Len(data)
        THEN [err |-> "write",
              files |-> [files EXCEPT ![serviceName] =
                           [exists |-> TRUE, content |-> old.content \o SubSeq(data, 1, written)]]]
        ELSE IF ~newlineOk
        THEN [err |-> "newline",
              files |-> [files EXCEPT ![serviceName] =
                           [exists |-> TRUE, content |-> old.content \o data]]]
        ELSE [err |-> "",
              files |-> [files EXCEPT ![serviceName] =
                           [exists |-> TRUE, content |-> old.content \o data \o <<"\n">>]]]

\* Topics under logs/# and payloads of the log messages.
LogTopics ==
    {<<"l", "o", "g", "s">>, <<"l", "o", "g", "s", "/", "a">>,
     <<"l", "o", "g", "s", "/", "a", "/", "i">>, <<"l", "o", "g", "s", "/", "b">>}
LogPayloads == {<<"x">>, <<"y", "z">>}

\* The service names of those topics: the files the directory can hold.
LogServices == {Split(t)[2] : t \in {u \in LogTopics : Len(Split(u)) >= 2}}

NoLog == [n |-> 0, topic |-> <<>>, payload |-> <<>>, warned |-> FALSE, err |-> "",
          logged |-> "", before |-> [s \in LogServices |-> NoFile]]

\* The Log Collector subscribed, its directory holding the given files.
CollectorInit(files) ==
    /\ logFiles = files
    /\ logMsgs = 0
    /\ logLast = NoLog

\* messageHandler (lines 39-61) on a message: a topic of fewer than two
\* segments is dropped with a warning; else the payload goes to the file of
\* the second segment, an error of appendLogToFile being logged.
messageHandler(topics, payloads) ==
    /\ logMsgs < MaxLogs
    /\ logMsgs' = logMsgs + 1
    /\ \E topic \in topics, payload \in payloads :
         LET parts == Split(topic)
             call == [n |-> logMsgs + 1, topic |-> topic, payload |-> payload,
                      warned |-> TRUE, err |-> "", logged |-> "warn", before |-> logFiles]
         IN  IF Len(parts) < 2
             THEN /\ logLast' = call
                  /\ UNCHANGED logFiles
             ELSE \E openOk \in BOOLEAN, written \in 0..Len(payload), newlineOk \in BOOLEAN :
                    LET r == appendLogToFile(logFiles, parts[2], payload, openOk, written,
                                             newlineOk)
                    IN  /\ (~openOk) => (written = Len(payload) /\ newlineOk)
                        /\ (written < Len(payload)) => newlineOk
                        /\ logFiles' = r.files
                        /\ logLast' = [call EXCEPT !.warned = FALSE, !.err = r.err,
                                         !.logged = IF r.err = "" THEN "" ELSE "error"]
    /\ UNCHANGED <<pipelineVars, monVars, shutVars, sideVars>>

\* ------------------------------------------- the Ingestor and the broker
\* Raw messages published to the broker in a run, and publishes of the
\* Ingestor after which the run is cut.
MaxRaw == 2
MaxOwn == 4

\* The topic filter matches the topic, both as their levels: "+" matches one
\* level, "#" the rest, the parent level included.
\* A filter with "#" taken to match every topic.
matchHashAll(route, topic) == \E i \in 1..Len(route) : route[i] = <<"#">>

RECURSIVE match(_, _)
match(route, topic) ==
    IF Len(route) = 0 THEN Len(topic) = 0
    ELSE IF route[1] = <<"#">> THEN TRUE
    ELSE IF Len(topic) = 0 THEN FALSE
    ELSE IF route[1] = <<"+">> \/ route[1] = topic[1] THEN match(Tail(route), Tail(topic))
    ELSE FALSE

TopicMatches(filter, topic) == match(Split(filter), Split(topic))

\* The defaults of LoadConfig (config.go 32-33) and the topic of the log
\* writer (main.go 33, mqtt_logger.go 21).
DefaultInputTopic == <<"/", "m", "s", "h", "/", "#">>
DefaultOutputTopic == <<"e", "v", "e", "n", "t", "s", "/", "d", "a", "t", "a">>
LogWriterTopic ==
    <<"l", "o", "g", "s", "/", "s", "e", "n", "s", "o", "r", "-", "i", "n", "g", "e", "s", "t",
      "o", "r">>

\* Topics raw messages come on: of a sensor the cache holds, of none, and
\* the parent level of the tree.
RawSensorTopic == <<"/", "m", "s", "h", "/", "a">>
RawTopics == {RawSensorTopic, <<"/", "m", "s", "h", "/", "u">>, <<"/", "m", "s", "h">>}

\* The Ingestor subscribed with the filter `input`, nothing published yet.
LoopInit(input) ==
    /\ ingInput = input
    /\ ingBus = <<>>
    /\ ingLoop = [raw |-> 0, handled |-> 0, own |-> 0, reprocessed |-> 0, events |-> 0,
                  logs |-> 0, elsewhere |-> 0]

\* A device publishes a raw message.
RawPublish ==
    /\ ingLoop.raw < MaxRaw
    /\ \E topic \in RawTopics : ingBus' = Append(ingBus, [topic |-> topic, own |-> FALSE])
    /\ ingLoop' = [ingLoop EXCEPT !.raw = @ + 1]
    /\ UNCHANGED <<pipelineVars, monVars, logVars, shutVars, ingInput, logWriter, ingCtx, logRun>>

\* The broker routes a publish that the Ingestor's subscription matches: the
\* handler (main.go 80-101) is called with it.  A message of a cached topic
\* is published as an event on OutputTopic, or the publish fails and an
\* error line goes to the log writer; any other message is rejected and a
\* warning line goes to the log writer (mqtt_logger.go 39).
RouteToIngestor ==
    /\ Len(ingBus) > 0 /\ ingLoop.own < MaxOwn
    /\ TopicMatches(ingInput, Head(ingBus).topic)
    /\ \E ok \in BOOLEAN :
         LET m == Head(ingBus)
             event == m.topic = RawSensorTopic /\ ok
             out == IF event THEN DefaultOutputTopic ELSE LogWriterTopic
         IN  /\ (m.topic # RawSensorTopic) => ok
             /\ ingBus' = Append(Tail(ingBus), [topic |-> out, own |-> TRUE])
             /\ ingLoop' = [ingLoop EXCEPT !.handled = @ + 1, !.own = @ + 1,
                                           !.reprocessed = IF m.own THEN @ + 1 ELSE @,
                                           !.events = IF event THEN @ + 1 ELSE @,
                                           !.logs = IF event THEN @ ELSE @ + 1]
    /\ UNCHANGED <<pipelineVars, monVars, logVars, shutVars, ingInput, logWriter, ingCtx, logRun>>

\* The broker routes a publish that the Ingestor's subscription does not
\* match: it goes to the other subscribers only.
RouteElsewhere ==
    /\ Len(ingBus) > 0
    /\ ~TopicMatches(ingInput, Head(ingBus).topic)
    /\ ingBus' = Tail(ingBus)
    /\ ingLoop' = [ingLoop EXCEPT !.elsewhere = @ + 1]
    /\ UNCHANGED <<pipelineVars, monVars, logVars, shutVars, ingInput, logWriter, ingCtx, logRun>>

\* ------------------------------------------------ MqttLogWriter (Ingestor)
\* Lines the logger writes in a run.
MaxLines == 3

\* The buffer the logging framework formats every line into, and reuses.
LoggerBuffer == 0

\* Write publishing the caller's buffer itself.
WriteNoCopy(mem, p, fresh) ==
    [mem |-> mem, payload |-> p, topic |-> LogWriterTopic, waited |-> FALSE,
     n |-> Len(mem[p]), err |-> ""]

\* MqttLogWriter.Write (mqtt_logger.go 27-42) on the buffers mem, p being
\* the caller's buffer and fresh the one make() returns: the bytes are copied
\* (33-34), the copy is handed to client.Publish on the writer's topic and
\* the token is dropped (39), and len(p) and nil are returned (41).
Write(mem, p, fresh) ==
    [mem |-> [mem EXCEPT ![fresh] = mem[p]], payload |-> fresh, topic |-> LogWriterTopic,
     waited |-> FALSE, n |-> Len(mem[p]), err |-> ""]

\* The texts of the log lines.
LogLines == {<<"a">>, <<"b", "c">>}

\* No line written yet; the broker connection as Connect left it.
WriterInit ==
    logWriter = [mem |-> [b \in 0..MaxLines |-> <<>>], lines |-> 0, stdout |-> <<>>,
                 published |-> <<>>, broker |-> "up", ret |-> [n |-> 0, err |-> ""]]

\* The connection to the broker is lost, or comes back.
BrokerFlip ==
    /\ Alive /\ mainPc \notin {"newClient", "connect"}
    /\ logWriter' = [logWriter EXCEPT !.broker = IF @ = "up" THEN "down" ELSE "up"]
    /\ UNCHANGED <<pipelineVars, monVars, logVars, shutVars, loopVars, ingCtx, logRun>>

\* A call of the logger built at main.go 33-40, which exists once Connect
\* has succeeded: the line is formatted into the logger's buffer and written
\* to io.MultiWriter(os.Stdout, mqttWriter), that is to standard output and,
\* if that write succeeded, to Write.  The publish reaches the broker if the
\* connection is up; Write learns nothing of it.
LogLine ==
    /\ Alive /\ mainPc \notin {"newClient", "connect"}
    /\ logWriter.lines < MaxLines
    /\ \E text \in LogLines, stdoutOk \in BOOLEAN :
         LET mem == [logWriter.mem EXCEPT ![LoggerBuffer] = text]
             w == Write(mem, LoggerBuffer, logWriter.lines + 1)
         IN  logWriter' =
               IF stdoutOk
               THEN [logWriter EXCEPT
                       !.mem = w.mem, !.lines = @ + 1,
                       !.stdout = Append(@, text),
                       !.published = Append(@, [payload |-> w.payload, topic |-> w.topic,
                                                waited |-> w.waited, text |-> text,
                                                sent |-> logWriter.broker = "up",
                                                at |-> mainPc]),
                       !.ret = [n |-> w.n, err |-> w.err]]
               ELSE [logWriter EXCEPT !.mem = mem, !.lines = @ + 1]
    /\ UNCHANGED <<pipelineVars, monVars, logVars, shutVars, loopVars, ingCtx, logRun>>

\* --------------------------------- the Log Collector's handler, step by step
\* The client built from mqtt.NewClientOptions() (log-collector/main.go 64-67)
\* keeps the order of the messages: it hands them to the default handler one
\* after another, the next one when the call before has returned.  Messages
\* that arrive meanwhile wait in the client.
LinesInit == logRun = [arrived |-> 0, queue |-> <<>>, flights |-> <<>>, calls |-> <<>>]

\* A message of logs/# arrives at the client (subscription of lines 75-78);
\* waited: a handler call was in progress when it arrived.
LogArrive(topics, payloads) ==
    /\ logRun.arrived < MaxLogs
    /\ \E topic \in topics, payload \in payloads :
         logRun' = [logRun EXCEPT
                      !.arrived = @ + 1,
                      !.queue = Append(@, [n |-> logRun.arrived + 1, topic |-> topic,
                                           payload |-> payload,
                                           waited |-> logRun.flights # <<>>])]
    /\ UNCHANGED <<pipelineVars, monVars, logVars, shutVars, loopVars, logWriter, ingCtx>>

\* What a call of the handler has done so far: the bytes it has put into the
\* file of its service, and its error.
NewCall(m, service, err, done) ==
    [n |-> m.n, topic |-> m.topic, payload |-> m.payload, waited |-> m.waited,
     service |-> service, text |-> <<>>, err |-> err, done |-> done]

\* The entry of the handler up to os.OpenFile (lines 39-58 and 91-103): a
\* topic of fewer than two segments is dropped with a warning; a failed open
\* is logged; else the file exists and the call goes on to its writes.
EnterCall(m) ==
    LET parts == Split(m.topic)
        c == Len(logRun.calls) + 1
    IN  IF Len(parts) < 2
        THEN /\ logRun' = [logRun EXCEPT !.queue = Tail(@),
                             !.calls = Append(@, NewCall(m, <<>>, "topic", TRUE))]
             /\ UNCHANGED logFiles
        ELSE \E openOk \in BOOLEAN :
               IF ~openOk
               THEN /\ logRun' = [logRun EXCEPT !.queue = Tail(@),
                                    !.calls = Append(@, NewCall(m, parts[2], "open", TRUE))]
                    /\ UNCHANGED logFiles
               ELSE /\ logRun' = [logRun EXCEPT !.queue = Tail(@),
                                    !.calls = Append(@, NewCall(m, parts[2], "", FALSE)),
                                    !.flights = Append(@, [call |-> c, pc |-> "write"])]
                    /\ logFiles' = [logFiles EXCEPT ![parts[2]].exists = TRUE]

\* A client that hands a message to the handler while another call is in
\* progress.
LogDispatchUnordered ==
    /\ logRun.queue # <<>>
    /\ EnterCall(Head(logRun.queue))
    /\ UNCHANGED <<pipelineVars, monVars, shutVars, loopVars, logWriter, ingCtx, logMsgs,
                   logLast>>

\* The client hands the next waiting message to messageHandler (lines 39-61),
\* no other call being in progress.
LogDispatch ==
    /\ logRun.queue # <<>> /\ logRun.flights = <<>>
    /\ EnterCall(Head(logRun.queue))
    /\ UNCHANGED <<pipelineVars, monVars, shutVars, loopVars, logWriter, ingCtx, logMsgs,
                   logLast>>

\* The sequence without its element i.
Without(seq, i) == SubSeq(seq, 1, i - 1) \o SubSeq(seq, i + 1, Len(seq))

\* The bytes go to the end of the file (O_APPEND) and are counted to the call.
AppendBytes(i, bytes, err, done) ==
    LET c == logRun.flights[i].call
        service == logRun.calls[c].service
    IN  /\ logFiles' = [logFiles EXCEPT ![service].content = @ \o bytes]
        /\ logRun' = [logRun EXCEPT
                        !.calls[c].text = @ \o bytes,
                        !.calls[c].err = err,
                        !.calls[c].done = done,
                        !.flights = IF done THEN Without(@, i)
                                    ELSE [@ EXCEPT ![i].pc = "newline"]]

\* f.Write(data) (lines 107-109): all of the payload, or fewer bytes and an
\* error, which the handler logs.
LogWriteData ==
    /\ \E i \in 1..Len(logRun.flights) :
         /\ logRun.flights[i].pc = "write"
         /\ LET data == logRun.calls[logRun.flights[i].call].payload
            IN  \E written \in 0..Len(data) :
                  IF written < Len(data)
                  THEN AppendBytes(i, SubSeq(data, 1, written), "write", TRUE)
                  ELSE AppendBytes(i, data, "", FALSE)
    /\ UNCHANGED <<pipelineVars, monVars, shutVars, loopVars, logWriter, ingCtx, logMsgs,
                   logLast>>

\* f.WriteString("\n") (lines 110-112) and the return of the handler.
LogWriteNewline ==
    /\ \E i \in 1..Len(logRun.flights) :
         /\ logRun.flights[i].pc = "newline"
         /\ \E newlineOk \in BOOLEAN :
              IF newlineOk THEN AppendBytes(i, <<"\n">>, "", TRUE)
              ELSE AppendBytes(i, <<>>, "newline", TRUE)
    /\ UNCHANGED <<pipelineVars, monVars, shutVars, loopVars, logWriter, ingCtx, logMsgs,
                   logLast>>

\* ------------------------------------- the refresh task and its context
\* ctx, cancel := context.WithCancel(context.Background()) (main.go 70) and
\* time.NewTicker(1 * time.Minute) (metadata.go 118): the context is live, the
\* ticker's channel, of capacity one, is empty.  late: the refresh task began
\* its latest LoadSensors call under a context already cancelled.
CtxInit == ingCtx = [done |-> FALSE, tick |-> FALSE, late |-> FALSE]

\* <-sigChan (main.go 119-121): main goes on to its return, where the deferred
\* calls run last registered first: client.Disconnect (104), cancel (71),
\* dbPool.Close (57).
MainSignal ==
    /\ mainPc = "running"
    /\ mainPc' = "disconnect"
    /\ UNCHANGED <<optsHandler, routerHandler, subscribed, startupLoad, dbVars, metaVars,
                   refreshVars, handlerVars, outbox, now, storeVars, persistVars,
                   apiVars, extVars>>

\* defer client.Disconnect(250) (main.go 104).
MainDeferDisconnect ==
    /\ mainPc = "disconnect"
    /\ mainPc' = "cancel"
    /\ subscribed' = FALSE
    /\ UNCHANGED <<optsHandler, routerHandler, startupLoad, dbVars, metaVars,
                   refreshVars, handlerVars, outbox, now, storeVars, persistVars,
                   apiVars, extVars>>

\* defer cancel() (main.go 71): ctx.Done() is closed.
MainDeferCancel ==
    /\ mainPc = "cancel"
    /\ mainPc' = "closePool"
    /\ ingCtx' = [ingCtx EXCEPT !.done = TRUE]
    /\ UNCHANGED <<optsHandler, routerHandler, subscribed, startupLoad, dbVars, metaVars,
                   refreshVars, handlerVars, outbox, now, storeVars, persistVars,
                   apiVars, monVars, logVars, shutVars, loopVars, logWriter, logRun>>

\* defer dbPool.Close() (main.go 57), which waits for the connection a
\* LoadSensors call holds, and the return of main: the process ends and the
\* refresh task with it, wherever it stands.
MainDeferClosePool ==
    /\ mainPc = "closePool" /\ loader.pc = "idle"
    /\ mainPc' = "exited"
    /\ UNCHANGED <<optsHandler, routerHandler, subscribed, startupLoad, dbVars, metaVars,
                   refreshVars, handlerVars, outbox, now, storeVars, persistVars,
                   apiVars, extVars>>

\* The ticker (metadata.go 118) puts a tick into its channel, which holds one:
\* a tick that finds the channel full is dropped.  defer ticker.Stop() (119)
\* ends the ticks when the task returns.
TickerFires ==
    /\ Alive /\ refresherPc \in {"wait", "load"} /\ ticks < MaxRefresh
    /\ ~ingCtx.tick
    /\ ingCtx' = [ingCtx EXCEPT !.tick = TRUE]
    /\ ticks' = ticks + 1
    /\ UNCHANGED <<mainVars, refresherPc, dbVars, metaVars, handlerVars, outbox, now,
                   storeVars, persistVars, apiVars, monVars, logVars, shutVars, loopVars,
                   logWriter, logRun>>

\* The select of the loop (metadata.go 122-131) taking case <-ticker.C: it
\* can, whenever a tick is in the channel, also with ctx.Done() closed, for a
\* select with several ready cases takes any of them.
RefreshTakeTick ==
    /\ Alive /\ refresherPc = "wait" /\ ingCtx.tick
    /\ refresherPc' = "load"
    /\ ingCtx' = [ingCtx EXCEPT !.tick = FALSE, !.late = ingCtx.done]
    /\ UNCHANGED <<mainVars, ticks, dbVars, metaVars, handlerVars, outbox, now,
                   storeVars, persistVars, apiVars, monVars, logVars, shutVars, loopVars,
                   logWriter, logRun>>

\* The select taking case <-ctx.Done() (metadata.go 123-125): the task returns.
RefreshDone ==
    /\ Alive /\ refresherPc = "wait" /\ ingCtx.done
    /\ refresherPc' = "stopped"
    /\ UNCHANGED <<mainVars, ticks, dbVars, metaVars, handlerVars, outbox, now,
                   storeVars, persistVars, apiVars, extVars>>

\* The side models as they start.
SideInit == LoopInit(DefaultInputTopic) /\ WriterInit /\ CtxInit /\ LinesInit

\* The services beside the pipeline as they start.
ExtInit ==
    /\ MonitorInit
    /\ CollectorInit([s \in LogServices |-> NoFile])
    /\ PersisterMainInit

\* --------------------------------------------------------- specifications
\* The sensors active when the Ingestor starts.
InitActive == {"/msh/a"}

InitStores ==
    /\ outbox = <<>>
    /\ now = 0
    /\ sensor_data = <<>>
    /\ kv = [i \in SensorIds |-> NoValue]
    /\ saves = 0
    /\ lastSave = NoSave
    /\ requests = 0
    /\ resp = NoResponse
    /\ ExtInit
    /\ SideInit

\* The Ingestor as main() builds it: the state before mqtt.NewClient, the
\* MetadataService holding the empty map of its constructor.
Init ==
    /\ mainPc = "newClient"
    /\ optsHandler = "nil"
    /\ routerHandler = "nil"
    /\ subscribed = FALSE
    /\ startupLoad = "none"
    /\ dbActive = InitActive
    /\ dbChanges = 0
    /\ cache = EmptyCache
    /\ loader = IdleLoader
    /\ lastLoad = NoLoad
    /\ complete = EmptyCache
    /\ refresherPc = "off"
    /\ ticks = 0
    /\ cur = IdleHandler
    /\ delivered = 0
    /\ msg = NoMsg
    /\ InitStores

Next ==
    \/ MainNewClient
    \/ MainConnect
    \/ MainDbPool
    \/ LoadQuery("main")
    \/ MainStartRefresh
    \/ MainSetHandler
    \/ MainSubscribe
    \/ MainShutdown
    \/ RefreshTick
    \/ LoadQuery("refresher")
    \/ LoadNextRow
    \/ LoadSwap
    \/ Deliver({"/msh/a", UnknownTopic}, {Text_1_5})
    \/ DbSetActive

Spec == Init /\ [][Next]_vars

\* The Ingestor from its start to its shutdown, with the refresh task, its
\* ticker and its context.
NextRefresh ==
    \/ MainNewClient
    \/ MainConnect
    \/ MainDbPool
    \/ LoadQuery("main")
    \/ MainStartRefresh
    \/ MainSetHandler
    \/ MainSubscribe
    \/ MainSignal
    \/ MainDeferDisconnect
    \/ MainDeferCancel
    \/ MainDeferClosePool
    \/ TickerFires
    \/ RefreshTakeTick
    \/ RefreshDone
    \/ LoadQuery("refresher")
    \/ LoadNextRow
    \/ LoadSwap
    \/ DbSetActive

SpecRefresh == Init /\ [][NextRefresh]_vars

\* The same, every step of the refresh task and of a load taken in the end.
SpecRefreshFair ==
    /\ SpecRefresh
    /\ WF_vars(RefreshTakeTick) /\ WF_vars(RefreshDone)
    /\ WF_vars(LoadQuery("refresher")) /\ WF_vars(LoadNextRow) /\ WF_vars(LoadSwap)

\* The Ingestor after its startup, the load at startup having read every row
\* of `active`.
HandlerInit(active) ==
    /\ mainPc = "running"
    /\ optsHandler = "handler"
    /\ routerHandler = "nil"
    /\ subscribed = TRUE
    /\ startupLoad = "ok"
    /\ dbActive = active
    /\ dbChanges = 0
    /\ cache = CacheOf(active)
    /\ loader = IdleLoader
    /\ lastLoad = [calls |-> 1, by |-> "main", ok |-> TRUE, failed |-> FALSE,
                   expect |-> CacheOf(active), before |-> EmptyCache]
    /\ complete = CacheOf(active)
    /\ refresherPc = "wait"
    /\ ticks = 0
    /\ cur = IdleHandler
    /\ delivered = 0
    /\ msg = NoMsg
    /\ InitStores

\* The handler with the background refresh and the database changing under it.
InitHandler == HandlerInit(InitActive)

NextHandler ==
    \/ RefreshTick
    \/ LoadQuery("refresher")
    \/ LoadNextRow
    \/ LoadSwap
    \/ HandlerCall(ChangingTopics \cup {UnknownTopic}, PayloadsFew)
    \/ HandlerLookup
    \/ HandlerProcess
    \/ HandlerPublish
    \/ PersistEvent
    \/ DbSetActive

SpecHandler == InitHandler /\ [][NextHandler]_vars

\* The processing step alone: every payload against every kind of cache entry.
InitProcess == HandlerInit(SensorTopics)

NextProcess ==
    \/ HandlerCall(AllTopics, PayloadsAll)
    \/ HandlerLookup
    \/ HandlerProcess
    \/ HandlerPublish
    \/ PersistEvent

SpecProcess == InitProcess /\ [][NextProcess]_vars

\* The stores with the Persister writing and the Read API reading, the
\* Ingestor's side at rest after its startup: the sensors in `active` are
\* switched on, the clock reads `clock`, the table holds `table`.
StoreStart(active, clock, table) ==
    /\ mainPc = "running"
    /\ optsHandler = "handler"
    /\ routerHandler = "nil"
    /\ subscribed = TRUE
    /\ startupLoad = "ok"
    /\ dbActive = active
    /\ dbChanges = 0
    /\ cache = CacheOf(active)
    /\ loader = IdleLoader
    /\ lastLoad = [calls |-> 1, by |-> "main", ok |-> TRUE, failed |-> FALSE,
                   expect |-> CacheOf(active), before |-> EmptyCache]
    /\ complete = CacheOf(active)
    /\ refresherPc = "wait"
    /\ ticks = 0
    /\ cur = IdleHandler
    /\ delivered = 0
    /\ msg = NoMsg
    /\ outbox = <<>>
    /\ now = clock
    /\ sensor_data = table
    /\ kv = [i \in SensorIds |-> NoValue]
    /\ saves = 0
    /\ lastSave = NoSave
    /\ requests = 0
    /\ resp = NoResponse
    /\ ExtInit

StoreInit(active, clock, table) == StoreStart(active, clock, table) /\ SideInit

\* Payloads on events/+ : events of two sensors with the values 0 and 1.5, an
\* event of a sensor that does not exist, and a payload that is no event.
StoreBodies ==
    {EventBody(id, v, 0) : id \in {1, 2}, v \in {Fin(0), ParseFloat(Text_1_5).v}}
      \cup {EventBody(9, Fin(0), 0), MalformedBody}

\* Instants of the clock in the run of the stores: within and past a lease.
StoreInstants == {Hour, Day}

\* The Persister alone, writing both stores.
InitPersist == StoreInit(ChangingTopics, 0, <<>>)

NextPersist ==
    \/ PersisterHandle(StoreBodies)
    \/ ClockAdvance(StoreInstants)

SpecPersist == InitPersist /\ [][NextPersist]_vars

\* Payloads on events/+ while the Read API lists the sensors: the values 0
\* and 1.5 of sensor 1.
ListBodies == {EventBody(1, Fin(0), 0), EventBody(1, ParseFloat(Text_1_5).v, 0)}

\* The Persister writing and the Read API listing the sensors, sensor 1
\* switched on or off, sensor 2 on.
InitStore ==
    \E active \in {ChangingTopics, ChangingTopics \ {TopicOf(1)}} : StoreInit(active, 0, <<>>)

NextStore ==
    \/ PersisterHandle(ListBodies)
    \/ ClockAdvance({Day})
    \/ ApiListSensors

SpecStore == InitStore /\ [][NextStore]_vars

\* Events saved before the history is asked for: of two sensors, a day, an
\* hour and no time before the first request.
HistoryEvents ==
    {EventAt(id, ParseFloat(Text_1_5).v, t) : id \in {1, 2}, t \in {0, Day - Hour, Day}}

\* The tables that up to n successful saves of such events leave.
RECURSIVE Tables(_)
Tables(n) ==
    IF n = 0 THEN {<<>>}
    ELSE Tables(n - 1) \cup
           {InsertRow(sd, e, 0, TRUE) : sd \in Tables(n - 1), e \in HistoryEvents}

\* Path values {id} and query parameters range of the requests.
HistoryIds == {<<"1">>, <<"1", ".", "5">>}
HistoryRanges ==
    {<<>>, <<"1", "h">>, <<"3", "0", "m">>, <<"2", "4", "h">>, <<"7", "d">>, <<"a", "b", "c">>}

\* The Read API serving history requests, from a day after the earliest
\* event's time on.
InitApi == \E table \in Tables(MaxRows) : StoreInit(ChangingTopics, Day, table)

NextApi ==
    \/ ClockAdvance({Day + Millisecond})
    \/ ApiHistory(HistoryIds, HistoryRanges)

SpecApi == InitApi /\ [][NextApi]_vars

\* The Monitor from the start of its loop to its exit.
InitMonitor == StoreInit(ChangingTopics, 0, <<>>)

NextMonitor ==
    \/ TickFire
    \/ MonitorSignal
    \/ StartCollect
    \/ StartPublish
    \/ MainTick
    \/ MainCollect
    \/ MainPublish
    \/ MainReturn
    \/ MainDisconnect
    \/ MainExit

SpecMonitor == InitMonitor /\ [][NextMonitor]_vars

\* The Log Collector handling messages, its directory empty at first.
InitCollector == StoreInit(ChangingTopics, 0, <<>>)

NextCollector == messageHandler(LogTopics, LogPayloads)

SpecCollector == InitCollector /\ [][NextCollector]_vars

\* The three subscribers side by side, each handed messages that fail and
\* messages that do not.
SubTopics == {"/msh/a", UnknownTopic}
SubPayloads == {Text_1_5}
SubBodies == {EventBody(1, Fin(0), 0), MalformedBody}
SubLogTopics == {<<"l", "o", "g", "s">>, <<"l", "o", "g", "s", "/", "a">>}
SubLogPayloads == {<<"x">>}

\* Messages the three have been handed so far.
Handled == delivered + saves + logMsgs

InitSubscribers == StoreInit(ChangingTopics, 0, <<>>)

NextSubscribers ==
    \/ Handled < MaxHandled /\ HandlerCallUpTo(MaxCalls, SubTopics, SubPayloads)
    \/ HandlerLookup
    \/ HandlerProcess
    \/ HandlerPublish
    \/ Handled < MaxHandled /\ PersisterHandle(SubBodies)
    \/ Handled < MaxHandled /\ messageHandler(SubLogTopics, SubLogPayloads)

SpecSubscribers == InitSubscribers /\ [][NextSubscribers]_vars

\* The Persister from its running state through a shutdown, with messages
\* that decode and one that does not.
InitShutdown == StoreInit(ChangingTopics, 0, <<>>)

NextShutdown ==
    \/ PersisterDeliver(StoreBodies)
    \/ PersisterInsert
    \/ PersisterSet
    \/ PersisterSignal
    \/ PersisterDisconnect
    \/ PersisterClosePool
    \/ PersisterCloseRedis
    \/ PersisterExit

SpecShutdown == InitShutdown /\ [][NextShutdown]_vars

\* Payloads on events/+ that are not records of the three fields: an object
\* with the identifier alone, one without the value, one whose value is
\* null, one whose value is no number; and a record that has them all.
OnlyIdBody == [sensor_id |-> <<"1">>]
NoValueBody == [sensor_id |-> <<"1">>, timestamp |-> <<"0", "Z">>]
NullValueBody == [sensor_id |-> <<"1">>, value |-> JsonNull, timestamp |-> <<"0", "Z">>]
DecodeBodies ==
    {OnlyIdBody, NoValueBody, NullValueBody, MalformedBody,
     EventBody(1, ParseFloat(Text_1_5).v, 0)}

\* Events of two sensors with two values and two timestamps, an hour apart,
\* handed to the Persister in any order.
OrderBodies ==
    {EventBody(id, v, t) : id \in {1, 2}, v \in {Fin(0), ParseFloat(Text_1_5).v}, t \in {0, Hour}}

InitOrder == StoreInit(ChangingTopics, 0, <<>>)

NextOrder ==
    \/ PersisterHandle(OrderBodies)
    \/ ClockAdvance(StoreInstants)

SpecOrder == InitOrder /\ [][NextOrder]_vars

\* The Log Collector with messages arriving while its handler writes.
InitLines == StoreInit(ChangingTopics, 0, <<>>)

NextLines ==
    \/ LogArrive(LogTopics, LogPayloads)
    \/ LogDispatch
    \/ LogWriteData
    \/ LogWriteNewline

SpecLines == InitLines /\ [][NextLines]_vars

\* The Persister handed such payloads.
InitDecode == StoreInit(ChangingTopics, 0, <<>>)

NextDecode ==
    \/ PersisterHandle(DecodeBodies)
    \/ ClockAdvance(StoreInstants)

SpecDecode == InitDecode /\ [][NextDecode]_vars

\* The Persister fed from two sides: the events the Ingestor's handler
\* publishes, and payloads another client publishes under events/+, of a
\* sensor that exists and of one that does not.
OtherBodies == {EventBody(2, Fin(0), 0), EventBody(9, Fin(0), 0)}

InitRows == HandlerInit(InitActive)

NextRows ==
    \/ HandlerCall({"/msh/a", UnknownTopic}, {Text_1_5})
    \/ HandlerLookup
    \/ HandlerProcess
    \/ HandlerPublish
    \/ PersistEvent
    \/ PersisterHandle(OtherBodies)

SpecRows == InitRows /\ [][NextRows]_vars

\* Sensors switched off and on under the running pipeline: the refresh, the
\* handler with messages of sensor 1, and the listing of the Read API.
InitInactive == HandlerInit(InitActive)

\* What has come upon the pipeline from outside so far: changes of the flags,
\* ticks of the refresh, messages and requests.
Stimuli == dbChanges + ticks + delivered + requests

NextInactive ==
    \/ Stimuli < MaxStimuli /\ DbSetActive
    \/ Stimuli < MaxStimuli /\ RefreshTick
    \/ LoadQuery("refresher")
    \/ LoadNextRow
    \/ LoadSwap
    \/ Stimuli < MaxStimuli /\ HandlerCall({"/msh/a"}, {Text_1_5})
    \/ HandlerLookup
    \/ HandlerProcess
    \/ HandlerPublish
    \/ Stimuli < MaxStimuli /\ ApiListSensors

SpecInactive == InitInactive /\ [][NextInactive]_vars

\* The Ingestor behind the broker, subscribed with the default filter or with
\* one set through INPUT_TOPIC that takes in every topic.
AllTopicsFilter == <<"#">>

InitLoop ==
    \E input \in {DefaultInputTopic, AllTopicsFilter} :
      StoreStart(ChangingTopics, 0, <<>>) /\ LoopInit(input) /\ WriterInit /\ CtxInit /\ LinesInit

NextLoop ==
    \/ RawPublish
    \/ RouteToIngestor
    \/ RouteElsewhere

SpecLoop == InitLoop /\ [][NextLoop]_vars

\* The Ingestor from the start of main through its connection, and its
\* logger once that is built.
NextWriter ==
    \/ MainNewClient
    \/ MainConnect
    \/ BrokerFlip
    \/ LogLine

SpecWriter == Init /\ [][NextWriter]_vars

\* ------------------------------------------------------------------ claims
\* The latest delivered message has been dealt with.
Settled == msg.outcome \in {"done", "noHandler"}

\* The handler has looked the latest message's topic up.
LookedUp == msg.outcome \in {"handling", "done"} /\ cur.pc # "lookup"

\* Nothing on the output topic or in the stores comes from message id.
NoTraceOf(id) ==
    /\ \A i \in 1..Len(outbox) : outbox[i].origin # id
    /\ \A i \in 1..Len(sensor_data) : sensor_data[i].origin # id
    /\ \A i \in SensorIds : kv[i].set => kv[i].origin # id

\* C1: every raw message delivered after the subscription either is processed
\* with success and yields exactly one event on the output topic, or is dropped
\* with a warning that carries its topic; none is ignored without reaching
\* the processing step.
C1_OneEventOrWarning ==
    Settled =>
      /\ msg.outcome = "done"
      /\ \/ msg.reason = "" /\ msg.published = 1 /\ msg.warned = ""
         \/ msg.reason # "" /\ msg.published = 0 /\ msg.warned = msg.topic

\* C2: a message whose topic is not a key of the cache when it is looked up
\* fails with the unknown-topic reason, no event is published for it, and no
\* time-series row and no key-value write comes from it.
C2_UnknownTopicNoEvent ==
    /\ (LookedUp /\ ~msg.look.found) =>
         /\ NoTraceOf(msg.id)
         /\ cur.pc # "publish"
         /\ msg.outcome = "done" =>
              msg.reason = "UnknownTopic" /\ msg.publishes = 0 /\ msg.warned = msg.topic
    /\ \A i \in 1..Len(outbox) : outbox[i].known
    /\ \A i \in 1..Len(sensor_data) : sensor_data[i].known
    /\ \A i \in SensorIds : kv[i].set => kv[i].known

\* C2 witness: a message on the topic of a sensor that is active in the database
\* but not in the cache has been rejected as an unknown topic.
C2_Witness ==
    /\ msg.outcome = "done" /\ ~msg.look.found /\ msg.reason = "UnknownTopic"
    /\ msg.topic \in dbActive

\* The claims' v >= lo and v <= hi on float64 values.
FGeq(a, b) == a.k # "nan" /\ b.k # "nan" /\ ~FLess(a, b)
FLeq(a, b) == a.k # "nan" /\ b.k # "nan" /\ ~FGreater(a, b)

\* (lo absent or v >= lo) and (hi absent or v <= hi)
InBounds(v, meta) ==
    /\ ~meta.MinValue.some \/ FGeq(v, meta.MinValue.v)
    /\ ~meta.MaxValue.some \/ FLeq(v, meta.MaxValue.v)

\* The latest message was on a known topic and its payload parsed.
SettledParsed == msg.outcome = "done" /\ msg.look.found /\ ParseFloat(msg.payload).ok

\* C3 as stated: on a known topic with a payload that parses to v, the event
\* is published if and only if v is within the bounds the sensor has.
C3_PublishedIffInBounds ==
    SettledParsed =>
      (msg.published = 1 <=> InBounds(ParseFloat(msg.payload).v, msg.look))

\* C3: on a known topic with a payload that parses to a finite v, the handler
\* issues exactly one publish of the event if and only if (lo absent or
\* v >= lo) and (hi absent or v <= hi), else the message is rejected as out of
\* range; the event reaches the output topic only if that publish succeeds.
C3_FinitePublishIssuedIffInBounds ==
    (SettledParsed /\ IsFinite(ParseFloat(msg.payload).v)) =>
      LET ok == InBounds(ParseFloat(msg.payload).v, msg.look)
      IN  /\ msg.publishes = 1 <=> ok
          /\ msg.publishes = 0 <=> ~ok
          /\ ~ok <=> msg.reason = "OutOfRange"
          /\ msg.published <= msg.publishes
          /\ msg.published = 1 => ~msg.errorLogged

\* C3 witness: a value equal to the sensor's lower bound has been published.
C3_Witness ==
    /\ SettledParsed /\ msg.look.MinValue.some
    /\ ParseFloat(msg.payload).v = msg.look.MinValue.v
    /\ msg.published = 1

\* The text is a decimal floating-point number: sign, decimal digits, point and
\* exponent only, and well formed.
DecimalText(s) ==
    /\ \A i \in 1..Len(s) : DecDigit(s[i]) >= 0 \/ s[i] \in {"+", "-", ".", "e", "E"}
    /\ ParseFloat(s).ok

IsSpace(c) == c \in {" ", "\n", "\t", "\r"}

RECURSIVE TrimLeft(_)
TrimLeft(s) == IF s # <<>> /\ IsSpace(Head(s)) THEN TrimLeft(Tail(s)) ELSE s

RECURSIVE TrimRight(_)
TrimRight(s) ==
    IF s # <<>> /\ IsSpace(s[Len(s)]) THEN TrimRight(SubSeq(s, 1, Len(s) - 1)) ELSE s

Trim(s) == TrimRight(TrimLeft(s))

\* C5: a payload is taken as the textual value with the surrounding white
\* space trimmed: on a known topic a payload whose trimmed text is a number is
\* not rejected as malformed, and what is range-checked is that number.
C5_TrimmedPayloadDecoded ==
    (msg.outcome = "done" /\ msg.look.found /\ ParseFloat(Trim(msg.payload)).ok) =>
      /\ msg.reason # "MalformedValue"
      /\ msg.published = 1 => msg.event.Value = ParseFloat(Trim(msg.payload)).v

\* C6: a published event holds the sensor identifier of the cache entry looked
\* up for the topic, the decoded value and a UTC timestamp read at processing
\* time; its encoding has exactly the fields sensor_id, value and timestamp,
\* and decoding it gives back the same identifier, value and instant.
C6_EventFieldsRoundTrip ==
    /\ cur.pc = "publish" =>
         /\ cur.event.SensorID = cur.look.ID
         /\ cur.look = GetMetadata(cur.snapshot, cur.topic)
         /\ cur.event.Value = ParseFloat(cur.payload).v
         /\ cur.event.Timestamp = [instant |-> now, loc |-> "UTC"]
         /\ MarshalEvent(cur.event) = [ok |-> TRUE, body |-> cur.body]
    /\ \A i \in 1..Len(outbox) :
         LET m == outbox[i]
             u == UnmarshalEvent(m.body)
         IN  /\ DOMAIN m.body = {"sensor_id", "value", "timestamp"}
             /\ m.event.Timestamp.loc = "UTC"
             /\ u.ok
             /\ u.event.SensorID = m.event.SensorID
             /\ u.event.Value = m.event.Value
             /\ u.event.Timestamp.instant = m.event.Timestamp.instant

\* C6 witness: an event with a fractional value and a timestamp later than the
\* start is on the output topic.
C6_Witness ==
    /\ Len(outbox) > 0
    /\ outbox[1].event.Value = ParseFloat(Text_1_5).v
    /\ outbox[1].event.Timestamp.instant = MaxClock
    /\ outbox[1].event.SensorID = SensorRow("/msh/b").ID

\* C7: a lookup never sees a partly built mapping: the map readers look in is
\* at every moment a complete one, the one before a refresh until the swap and
\* the newly built one after it, and what a lookup returned is what that
\* complete mapping holds for the topic.
C7_RefreshAtomic ==
    /\ cache = complete
    /\ loader.pc # "idle" => cache = loader.before
    /\ cur.pc \in {"process", "publish"} => cur.look = GetMetadata(cur.snapshot, cur.topic)

\* C7 witness: a lookup made while a refresh was reading rows found its
\* topic, and the map being built still differs from the one in use.
C7_Witness ==
    /\ cur.pc = "process" /\ cur.duringLoad /\ cur.look.found
    /\ loader.pc = "rows" /\ loader.by = "refresher"
    /\ loader.newCache # EmptyCache /\ loader.newCache # cache

\* C8: a periodic refresh that fails leaves the cache as it was before it.
C8_FailedRefreshKeepsCache ==
    (lastLoad.by = "refresher" /\ lastLoad.failed) => cache = lastLoad.before

\* C9: after a load that reported success the keys of the cache are the
\* topics of the sensors that were active when its query ran, each with the
\* identifier and bounds of its row.
C9_CacheIsActiveSensors ==
    lastLoad.ok => cache = lastLoad.expect

\* C10: the subscription is made, and so any message handled, only after one
\* load at startup has reported success; if that load fails the process ends
\* without subscribing and no message is handled.
C10_LoadBeforeSubscribe ==
    /\ (subscribed \/ delivered > 0 \/ mainPc \in {"startRefresh", "setHandler", "subscribe", "running"})
         => startupLoad = "ok" /\ lastLoad.calls >= 1
    /\ startupLoad = "failed" => mainPc = "exited" /\ ~subscribed /\ delivered = 0
    /\ startupLoad = "none" => ~subscribed /\ delivered = 0 /\ refresherPc = "off"

\* C10 witness: a message has been delivered, after a load at startup that
\* reported success.
C10_Witness == subscribed /\ delivered > 0 /\ startupLoad = "ok"

\* -------- The Persister: SaveMeasurement on the two stores --------

\* The last call of the handler decoded its event.
SaveDecoded == lastSave.n > 0 /\ lastSave.decoded

\* The last row of the table is the row of the event of the last call.
LastRowIsEvent ==
    /\ Len(sensor_data) = lastSave.rowsBefore + 1
    /\ LET row == sensor_data[Len(sensor_data)]
       IN  /\ row.time.instant = lastSave.event.Timestamp.instant
           /\ row.sensor_id = lastSave.event.SensorID
           /\ row.value = lastSave.event.Value

\* C11: for every event E the Persister decodes and whose insert succeeds,
\* that message adds exactly one row (E.timestamp, E.sensor_id, E.value) to
\* sensor_data, and the value then written under sensor:last:<E.sensor_id>
\* decodes to the value of that row.
C11_OneRowAndEqualLastValue ==
    (SaveDecoded /\ lastSave.err \in {"", "kv"}) =>
       /\ LastRowIsEvent
       /\ lastSave.err = "" =>
            LET id == lastSave.event.SensorID
            IN  /\ kv[id].set
                /\ ParseFloat(kv[id].text) =
                     [ok |-> TRUE, v |-> sensor_data[Len(sensor_data)].value]

\* A second message saved in both stores, with a value that is not zero.
C11_Witness ==
    /\ SaveDecoded /\ lastSave.err = ""
    /\ lastSave.rowsBefore = 1
    /\ lastSave.event.Value = ParseFloat(Text_1_5).v
    /\ Len(sensor_data) = 2

\* C12: when the insert of SaveMeasurement fails the operation fails: the
\* error is returned (the handler logs it), no row is added, and the
\* key-value store is as it was before the call, the previous entry of the
\* sensor included.
C12_FailedInsertWritesNothing ==
    (SaveDecoded /\ lastSave.err = "pg") =>
       /\ lastSave.logged = "error"
       /\ Len(sensor_data) = lastSave.rowsBefore
       /\ kv = lastSave.kvBefore

\* The insert fails for a sensor whose entry holds another value.
C12_Witness ==
    /\ SaveDecoded /\ lastSave.err = "pg"
    /\ lastSave.event.SensorID \in SensorIds
    /\ lastSave.kvBefore[lastSave.event.SensorID].set
    /\ lastSave.kvBefore[lastSave.event.SensorID].text # FormatFloat(lastSave.event.Value)
    /\ kv[lastSave.event.SensorID] = lastSave.kvBefore[lastSave.event.SensorID]

\* C13: when the insert succeeds and the SET then fails, the error is
\* returned and the inserted row stays; the key-value store keeps what it
\* held, so the stores may differ, the table holding the newer value.
C13_FailedSetKeepsRow ==
    (SaveDecoded /\ lastSave.err = "kv") =>
       /\ lastSave.logged = "error"
       /\ LastRowIsEvent
       /\ kv = lastSave.kvBefore

\* The stores differ: the entry of the sensor holds an older, other value
\* than its newest row.
C13_Witness ==
    /\ SaveDecoded /\ lastSave.err = "kv"
    /\ LET id == lastSave.event.SensorID
       IN  /\ kv[id].set
           /\ ParseFloat(kv[id].text).v # sensor_data[Len(sensor_data)].value
           /\ sensor_data[Len(sensor_data)].sensor_id = id

\* C14: sensor_data holds at most one row for a (timestamp, sensor_id): the
\* same event received twice leaves one row, the second insert being a
\* conflict.
C14_NoDuplicateRows ==
    \A i, j \in 1..Len(sensor_data) :
       (sensor_data[i].time.instant = sensor_data[j].time.instant
          /\ sensor_data[i].sensor_id = sensor_data[j].sensor_id) => i = j

\* -------- The Read API: GET /api/sensors --------

\* The last response is a listing that GetAllSensors returned without error.
Listed == resp.kind = "list" /\ resp.status = 200

\* The listing was made after the last call of SaveMeasurement, which wrote
\* both stores, and before the lease of the key it wrote ran out.
ListedAfterSave ==
    /\ Listed
    /\ SaveDecoded /\ lastSave.err = ""
    /\ resp.saves = lastSave.n
    /\ resp.at < lastSave.at + Lease

\* C15: after SaveMeasurement(E) succeeded in both stores for an active
\* sensor, every later result of GetAllSensors contains that sensor with
\* the current value E.value, until the sensor's next event is saved or the
\* lease of 24 hours runs out.
C15_ListedWithSavedValue ==
    (ListedAfterSave /\ TopicOf(lastSave.event.SensorID) \in resp.active) =>
       \E i \in 1..Len(resp.sensors) :
          /\ resp.sensors[i].ID = lastSave.event.SensorID
          /\ resp.sensors[i].CurrentValue = Some(lastSave.event.Value)

\* The entry of sensor id that a lookup of the listing could read: a key that
\* is set, its lease running, the store reachable for it.
EntryRead(id) ==
    /\ resp.kv[id].set
    /\ resp.at < resp.kv[id].expires
    /\ id \notin resp.down

\* C16: GetAllSensors leaves the current value unset when there is no entry
\* under sensor:last:<id> or the lookup fails with a transport error, and
\* sets it only to the number decoded from a present entry; an unset value
\* is encoded as null, never as 0; a failed lookup does not fail the listing
\* and the listing has every row that was read.
C16_UnsetIsNotZero ==
    (resp.kind = "list" /\ resp.err = "") =>
       /\ resp.status = 200
       /\ Len(resp.sensors) = resp.read
       /\ \A i \in 1..Len(resp.sensors) :
            LET s == resp.sensors[i]
            IN  /\ s.ID = ActiveById(resp.active, 1)[i]
                /\ IF EntryRead(s.ID)
                   THEN /\ ParseFloat(resp.kv[s.ID].text).ok
                        /\ s.CurrentValue = Some(ParseFloat(resp.kv[s.ID].text).v)
                        /\ resp.encoded[i] = resp.kv[s.ID].text
                   ELSE /\ s.CurrentValue = None
                        /\ resp.encoded[i] = <<"n", "u", "l", "l">>
                        /\ resp.encoded[i] # FormatFloat(Fin(0))

\* A listing of both sensors: the lookup of sensor 2 failed, sensor 1 is
\* listed with the value 0 of its entry.
C16_Witness ==
    /\ Listed
    /\ Len(resp.sensors) = 2
    /\ resp.down = {2}
    /\ resp.sensors[1].ID = 1 /\ resp.sensors[1].CurrentValue = Some(Fin(0))
    /\ resp.encoded[1] = <<"0">>
    /\ resp.sensors[2].ID = 2 /\ resp.sensors[2].CurrentValue = None

\* -------- The Read API: GET /api/sensors/{id}/history --------

\* The last response answers a history request whose id is an integer.
HistoryAsked == resp.kind = "history" /\ ParseInt(resp.idStr).ok

\* The range of the request, the default when the parameter is missing.
RangeAsked == IF resp.rangeParam = <<>> THEN DefaultRange ELSE resp.rangeParam

\* C17: a history request whose range does not parse as a duration is
\* answered with status 400, and no query is run for it.
C17_BadRangeIs400 ==
    (HistoryAsked /\ ~ParseDuration(RangeAsked).ok) =>
       /\ resp.status = 400
       /\ ~resp.queried

\* The durations the window specifications stand for: "7d" seven days, a
\* missing range 24 hours.
WindowOf(rangeParam) ==
    IF rangeParam = <<"1", "h">> THEN Hour
    ELSE IF rangeParam = <<"3", "0", "m">> THEN 30 * Minute
    ELSE IF rangeParam = <<"7", "d">> THEN 7 * Day
    ELSE Day

\* C18: the ranges 1h, 30m, 24h, 7d and a missing range are valid windows of
\* one hour, thirty minutes, twenty-four hours, seven days and twenty-four
\* hours; unless the store fails, each gets a successful response.
C18_WindowsAccepted ==
    (/\ HistoryAsked
     /\ resp.rangeParam \in {<<>>, <<"1", "h">>, <<"3", "0", "m">>, <<"2", "4", "h">>,
                             <<"7", "d">>}
     /\ resp.err \notin {"query", "scan"}) =>
       /\ resp.status = 200
       /\ ParseDuration(RangeAsked) = [ok |-> TRUE, d |-> WindowOf(resp.rangeParam)]

\* C19: a history request whose {id} does not parse as an integer is
\* answered with status 400; GetHistory is not called and no store is read.
C19_BadIdIs400 ==
    (resp.kind = "history" /\ ~ParseInt(resp.idStr).ok) =>
       /\ resp.status = 400
       /\ ~resp.called
       /\ ~resp.queried
       /\ resp.points = <<>>

\* The id 1.5 asked for while the table holds rows.
C19_Witness ==
    /\ resp.kind = "history"
    /\ resp.idStr = <<"1", ".", "5">>
    /\ resp.status = 400
    /\ resp.rows > 0

\* C20: for a valid id and duration d GetHistory returns exactly the stored
\* points of that sensor with a time at or after now - d, ascending in time,
\* and an empty list, not an error, when there is none.
C20_ExactlyThePointsOfTheWindow ==
    (HistoryAsked /\ resp.status = 200) =>
       /\ resp.points =
            PointsInOrder(sensor_data,
               HistoryRows(sensor_data, ParseInt(resp.idStr).v,
                           resp.at - ParseDuration(RangeAsked).d))
       /\ resp.json = "array"

\* -------- The Monitor --------

\* The topics of the publish calls of sample s, in the order of the calls.
TopicsOf(s) == [i \in 1..Len(monPublished[s]) |-> monPublished[s][i].topic]

\* Sample s has run to its end: the sample at startup (0), a sample of an
\* earlier tick, or the sample of main's current tick.
SampleDone(s) ==
    IF s = 0 THEN monStart.pc = "done"
    ELSE s < monMain.n \/ (s = monMain.n /\ monMain.pc \in {"done", "disconnect", "exit", "exited"})

MetricOf(i) ==
    CASE i = 1 -> "cpu" [] i \in {2, 3} -> "ram" [] i = 4 -> "procs" [] OTHER -> "disk"

\* C22: the failure of a metric during a sample is logged and the cycle goes
\* on: the other metrics are collected and the publishes of the sample are
\* made.
C22_FailedMetricLoggedCycleGoesOn ==
    \A task \in {monStart, monMain} :
       (task.pc \in {"publish", "done"} /\ task.failed # {}) =>
          /\ task.logged = task.failed
          /\ \A i \in 1..6 :
               MetricOf(i) \notin task.failed => StatOf(task.stats, i) = StatOf(Readings, i)
          /\ task.pc = "done" => task.next = 7

\* A sample is in progress: its task is in CollectStats or between its
\* publishes.
Sampling(task) == task.pc \in {"collect", "publish"}

\* C30: sampling and publishing are one task's work: no two samples are ever
\* in progress at once, the sample at startup and that of the first tick
\* included.
C30_OneSampleAtATime == ~(Sampling(monStart) /\ Sampling(monMain))

\* -------- The Log Collector --------

\* The last message had a topic of at least two segments.
LogNamed == logLast.n > 0 /\ Len(Split(logLast.topic)) >= 2

\* Every file but that of service s is as before the last message.
OtherFilesKept(s) == \A o \in LogServices \ {s} : logFiles[o] = logLast.before[o]

\* C23 as stated: for every message whose topic has at least two segments
\* the payload and one newline are appended to the file of the second
\* segment, the content before it kept and no other file touched; a topic
\* of fewer segments is dropped with a warning and nothing is written.
C23_EveryPayloadAppended ==
    /\ LogNamed =>
         LET s == Split(logLast.topic)[2]
         IN  /\ logFiles[s].content = logLast.before[s].content \o logLast.payload \o <<"\n">>
             /\ OtherFilesKept(s)
    /\ (logLast.n > 0 /\ ~LogNamed) => (logLast.warned /\ logFiles = logLast.before)

\* C23: for every message whose topic has at least two segments and whose
\* file is opened and written without error, the payload and one newline are
\* appended to the file of the second segment; when the open fails nothing
\* is written, when a write fails the bytes written before the failure are
\* appended without the newline, and the error is logged.  In every case the
\* content before is kept and no other file is touched; a topic of fewer
\* segments is dropped with a warning and nothing is written.
C23_PayloadAppendedUnlessIOFails ==
    /\ LogNamed =>
         LET s == Split(logLast.topic)[2]
             old == logLast.before[s].content
             new == logFiles[s].content
         IN  /\ OtherFilesKept(s)
             /\ ~logLast.warned
             /\ logLast.err = "" => new = old \o logLast.payload \o <<"\n">>
             /\ logLast.err = "open" => logFiles[s] = logLast.before[s]
             /\ logLast.err = "newline" => new = old \o logLast.payload
             /\ logLast.err = "write" =>
                  \E k \in 0..(Len(logLast.payload) - 1) : new = old \o SubSeq(logLast.payload, 1, k)
             /\ logLast.err # "" => logLast.logged = "error"
    /\ (logLast.n > 0 /\ ~LogNamed) => (logLast.warned /\ logFiles = logLast.before)

\* A second line appended to the file of service a, after the line of a
\* message with a longer topic.
C23_Witness ==
    /\ logLast.n = 2 /\ logLast.err = ""
    /\ logLast.topic = <<"l", "o", "g", "s", "/", "a">>
    /\ logLast.before[<<"a">>].content = <<"x", "\n">>
    /\ logFiles[<<"a">>].content = <<"x", "\n", "y", "z", "\n">>
    /\ ~logFiles[<<"b">>].exists

\* -------- The subscribers: failures of single messages --------

\* The run has a message left for a subscriber.
MoreToHandle == Handled < MaxHandled

\* C24: a failure on one message (the Ingestor rejecting it or failing to
\* publish, the Persister failing to decode or to save, the Log Collector
\* finding a bad topic or failing on its file) neither ends the process nor
\* holds the callback: the process lives and stays subscribed, a handler that
\* has been entered can always take its next step and is back at rest when
\* the message is settled, every message handed to the Persister and to the
\* Log Collector has been handled to its end, and each handler takes the next
\* message as long as the run has one.
C24_FailuresAreIsolated ==
    /\ Alive /\ subscribed
    /\ cur.pc # "idle" => ENABLED (HandlerLookup \/ HandlerProcess \/ HandlerPublish)
    /\ msg.outcome = "done" => cur = IdleHandler
    /\ (cur.pc = "idle" /\ delivered < MaxCalls /\ MoreToHandle) =>
         ENABLED HandlerCallUpTo(MaxCalls, SubTopics, SubPayloads)
    /\ lastSave.n = saves
    /\ (saves < MaxSaves /\ MoreToHandle) => ENABLED PersisterHandle(SubBodies)
    /\ logLast.n = logMsgs
    /\ (logMsgs < MaxLogs /\ MoreToHandle) =>
         ENABLED messageHandler(SubLogTopics, SubLogPayloads)

\* Each subscriber has failed on its first message and the Persister has
\* then handled its second one with success: the Ingestor's handler is at
\* rest after a rejected message, the Log Collector's only message left an
\* error and no file, the Persister's second save found no row and wrote one.
C24_Witness ==
    /\ delivered = 1 /\ cur = IdleHandler /\ msg.outcome = "done" /\ msg.reason # ""
    /\ logLast.n = 1 /\ logLast.err = "open"
    /\ lastSave.n = 2 /\ lastSave.err = "" /\ lastSave.rowsBefore = 0 /\ Len(sensor_data) = 1

\* -------- Shutdown --------

\* C25: on a signal the Persister first stops taking messages, lets the
\* handler call in progress end, then disconnects and only then closes the
\* pool and the key-value client: no message is taken after the signal, the
\* client is not disconnected and no store is closed while a handler call is
\* in progress, no handler call is cut by the end of the process, and no
\* store operation of a handler runs on a closed store or after the
\* disconnect.
C25_ShutdownInOrder ==
    /\ ~persFlight.afterSignal
    /\ persFlight.pc # "killed"
    /\ persFlight.pc \in {"insert", "set"} =>
         (persMain.client = "connected" /\ persMain.pgPool = "open" /\ persMain.redis = "open")
    /\ \A i \in 1..Len(persFlight.ops) :
         LET o == persFlight.ops[i]
         IN  o.pgPool = "open" /\ o.redis = "open" /\ o.client = "connected"

\* -------- The Persister: payloads that are no records --------

\* The payload is a record with the three fields, each of its kind: an
\* integer identifier, a number, a time.
WellFormedRecord(body) ==
    /\ {"sensor_id", "value", "timestamp"} \subseteq DOMAIN body
    /\ LET id == body.sensor_id
       IN  AllDigits(IF Len(id) > 0 /\ id[1] = "-" THEN Tail(id) ELSE id)
    /\ JsonNumber(body.value)
    /\ ParseTime(body.timestamp).ok

\* C26: a payload that is not a well-formed record of sensor identifier,
\* value and timestamp is skipped: it is logged, SaveMeasurement is not
\* called for it and neither store is written.
C26_MalformedSkipped ==
    (lastSave.n > 0 /\ ~WellFormedRecord(lastSave.body)) =>
        /\ ~lastSave.decoded /\ lastSave.err = "decode" /\ lastSave.logged # ""
        /\ Len(sensor_data) = lastSave.rowsBefore
        /\ kv = lastSave.kvBefore

\* -------- The rows of sensor_data and where they come from --------

Switched == (dbActive \ InitActive) \cup (InitActive \ dbActive)

\* C28: inactive sensors are invisible.  After a refresh that returned nil
\* the cache holds only sensors that were active when it queried; the
\* handler's lookup reads the map last swapped in, and a message whose topic
\* it does not find is dropped as an unknown topic with nothing published; a
\* listing of GetAllSensors holds only sensors active when it queried; and
\* the flags of the sensors change only out of band, never by the pipeline.
C28_InactiveInvisible ==
    /\ lastLoad.ok =>
         \A t \in AllTopics : cache[t].found => lastLoad.expect[t].found
    /\ cache = complete
    /\ cur.pc \in {"process", "publish"} => cur.look = cur.snapshot[cur.topic]
    /\ (msg.outcome = "done" /\ ~msg.look.found) =>
         (msg.reason = "UnknownTopic" /\ msg.publishes = 0 /\ msg.warned = msg.topic)
    /\ resp.kind = "list" =>
         \A i \in 1..Len(resp.sensors) : TopicOf(resp.sensors[i].ID) \in resp.active
    /\ Cardinality(Switched) <= dbChanges

\* Sensor 1 has been switched off, a refresh that queried afterwards has
\* swapped its map in, a message on the sensor's topic has then been dropped
\* as unknown, and a listing made since does not show the sensor.
C28_Witness ==
    /\ "/msh/a" \notin dbActive
    /\ lastLoad.by = "refresher" /\ lastLoad.ok /\ ~lastLoad.failed
    /\ ~lastLoad.expect["/msh/a"].found /\ lastLoad.before["/msh/a"].found
    /\ msg.outcome = "done" /\ msg.topic = "/msh/a" /\ msg.reason = "UnknownTopic"
    /\ cur = IdleHandler
    /\ resp.kind = "list" /\ resp.status = 200 /\ "/msh/a" \notin resp.active
    /\ resp.read = Len(ActiveById(resp.active, 1))

\* -------- A sensor added while the Ingestor runs --------

\* The last call of LoadSensors was a periodic refresh that returned nil, its
\* query having seen the sensor of this topic, which the cache before it did
\* not hold; no load is running.
AddedBeforeRefresh(topic) ==
    /\ lastLoad.by = "refresher" /\ lastLoad.ok /\ loader.pc = "idle"
    /\ lastLoad.expect[topic].found
    /\ ~lastLoad.before[topic].found

\* C29: a sensor added while the Ingestor runs is served after the next
\* periodic refresh that reports success: a message on its topic that comes
\* to its lookup then finds the sensor, and a message that was found and
\* passed the checks is published.
C29_AddedSensorAccepted ==
    /\ (cur.pc = "lookup" /\ AddedBeforeRefresh(cur.topic)) =>
         GetMetadata(cache, cur.topic).found
    /\ (msg.outcome = "done" /\ msg.look.found /\ msg.reason = "") => msg.publishes = 1

\* -------- The Ingestor and its own publishes --------

\* C31: with the default topics nothing the Ingestor publishes comes back to
\* it: neither events/data nor logs/sensor-ingestor matches /msh/#, the
\* handler is never called with a publish of its own, and the Ingestor has
\* published at most one message for each raw message it was handed.
C31_NoLoopWithDefaults ==
    /\ ~TopicMatches(DefaultInputTopic, DefaultOutputTopic)
    /\ ~TopicMatches(DefaultInputTopic, LogWriterTopic)
    /\ ingInput = DefaultInputTopic =>
         /\ ingLoop.reprocessed = 0
         /\ ingLoop.handled <= ingLoop.raw
         /\ ingLoop.own = ingLoop.handled
         /\ \A i \in 1..Len(ingBus) : ingBus[i].own => ~TopicMatches(ingInput, ingBus[i].topic)

\* Two raw messages have been handled under the default filter, one giving
\* an event and one a log line, and both publishes have gone to the other
\* subscribers only.
C31_Witness ==
    /\ ingInput = DefaultInputTopic
    /\ ingLoop.raw = 2 /\ ingLoop.handled = 2 /\ ingLoop.events = 1 /\ ingLoop.logs = 1
    /\ ingLoop.elsewhere = 2 /\ ingBus = <<>>

\* -------- The Ingestor's log writer --------

\* C32: the log writer is fire-and-forget.  Every publish it made is on
\* logs/sensor-ingestor, was not waited for, and carries a buffer of its own
\* that still holds the text of its line, whatever the logger has written
\* into its buffer since; Write returned the length of its input and no
\* error, the broker reachable or not; the line is on standard output as
\* well; and no publish was made before Connect had succeeded.
C32_WriterFireAndForget ==
    /\ \A i \in 1..Len(logWriter.published) :
         LET e == logWriter.published[i]
         IN  /\ e.topic = LogWriterTopic /\ ~e.waited
             /\ e.payload # LoggerBuffer
             /\ logWriter.mem[e.payload] = e.text
             /\ \E j \in 1..Len(logWriter.stdout) : logWriter.stdout[j] = e.text
             /\ e.at \notin {"newClient", "connect"}
    /\ Len(logWriter.published) = Len(logWriter.stdout)
    /\ Len(logWriter.published) > 0 =>
         /\ logWriter.ret.err = ""
         /\ logWriter.ret.n = Len(logWriter.published[Len(logWriter.published)].text)

\* Two lines of different texts have been published, the first while the
\* broker could not be reached, and the logger's buffer holds the second.
C32_Witness ==
    /\ Len(logWriter.published) = 2
    /\ logWriter.published[1].text = <<"b", "c">> /\ ~logWriter.published[1].sent
    /\ logWriter.published[2].text = <<"a">> /\ logWriter.published[2].sent
    /\ logWriter.mem[LoggerBuffer] = <<"a">>
    /\ logWriter.mem[logWriter.published[1].payload] = <<"b", "c">>
    /\ logWriter.ret = [n |-> 1, err |-> ""]


\* ---------------------------------------------------------------- C33
\* C33: once main has cancelled the context, the refresh task begins no
\* further refresh: it is never at a LoadSensors call that it began with
\* ctx.Done() already closed.
C33_NoRefreshAfterCancel ==
    ~(ingCtx.done /\ ingCtx.late /\ refresherPc = "load")

\* What holds of the task after the cancellation: a LoadSensors call begun
\* under the cancelled context ends at its query, so such a call never reads
\* a row and never replaces the cache.
C33_LateRefreshFails ==
    ingCtx.late /\ refresherPc = "load" => loader.pc = "idle"

\* Once the task has returned it stays so, and the cache stays as it is.
C33_NothingAfterExit ==
    [][refresherPc = "stopped" => refresherPc' = "stopped" /\ cache' = cache]_vars

\* After the cancellation the task returns, unless the process ends first.
C33_TaskExits ==
    ingCtx.done ~> (refresherPc = "stopped" \/ mainPc = "exited")

\* The task has returned on the cancellation while the process still runs.
C33_Returned ==
    refresherPc = "stopped" /\ mainPc = "closePool"


\* ---------------------------------------------------------------- C34
\* The callers of LoadSensors take turns: a call in progress belongs to the
\* caller standing at its call, main's call runs with the refresh task not
\* yet started, and the task exists only after the load at startup succeeded.
LoadsTakeTurns ==
    /\ loader.pc # "idle" =>
         /\ AtLoadCall(loader.by)
         /\ loader.by = "main" => refresherPc = "off"
         /\ loader.by = "refresher" => mainPc # "load"
    /\ refresherPc # "off" =>
         /\ startupLoad = "ok"
         /\ mainPc \notin {"newClient", "connect", "pool", "load"}

\* C34: metadata refreshes never overlap, and the cache is replaced only by
\* the snapshot of a load whose query ran with the replaced one in place:
\* the loads take turns, the cache stays as the load in progress found it
\* until that load swaps its own snapshot in, and nothing else changes it.
C34_RefreshesNeverOverlap ==
    /\ [](LoadsTakeTurns /\ (loader.pc = "rows" => cache = loader.before))
    /\ [][cache' # cache =>
            /\ loader.pc = "rows" /\ loader.rows = {}
            /\ cache = loader.before
            /\ cache' = loader.newCache
            /\ lastLoad'.calls = lastLoad.calls + 1]_vars

\* The refresh task has replaced the snapshot of the startup by a later one.
C34_Witness ==
    /\ lastLoad.by = "refresher" /\ lastLoad.ok /\ lastLoad.calls >= 2
    /\ cache # lastLoad.before
    /\ loader.pc = "idle"


\* ---------------------------------------------------------------- C35
\* The value v passes the bounds of the cache entry.
WithinBounds(entry, v) ==
    /\ entry.MinValue.some => ~FLess(v, entry.MinValue.v)
    /\ entry.MaxValue.some => ~FGreater(v, entry.MaxValue.v)

\* C35: the identifier and the bounds applied to one message come from one
\* cache entry of one generation: the entry the handler works with is the one
\* its lookup found in the map then in use, it stays that entry through the
\* processing whatever a refresh swaps in meanwhile, and the event to publish
\* carries that entry's identifier and a value within that entry's bounds.
C35_OneEntryPerMessage ==
    /\ [](cur.pc \in {"process", "publish"} =>
            cur.look = GetMetadata(cur.snapshot, cur.topic))
    /\ [](cur.pc = "publish" =>
            /\ cur.look.found
            /\ cur.event.SensorID = cur.look.ID
            /\ WithinBounds(cur.look, cur.event.Value))
    /\ [][cur.pc \in {"process", "publish"} /\ cur'.pc \in {"process", "publish"} =>
            cur'.look = cur.look /\ cur'.snapshot = cur.snapshot]_vars

\* A message was looked up and processed, and a refresh has swapped in
\* meanwhile a map that no longer holds the entry the message is handled with.
C35_Witness ==
    /\ cur.pc = "publish"
    /\ cache # cur.snapshot
    /\ GetMetadata(cache, cur.topic) # cur.look
    /\ lastLoad.by = "refresher" /\ lastLoad.ok


\* ---------------------------------------------------------------- C36
\* The rows stored for sensor s, and those of them no other is later than.
RowsOf(sd, s) == {i \in 1..Len(sd) : sd[i].sensor_id = s}
LatestRowsOf(sd, s) ==
    {i \in RowsOf(sd, s) :
       \A j \in RowsOf(sd, s) : sd[j].time.instant <= sd[i].time.instant}

\* Two events of one sensor have been handled and both calls of
\* SaveMeasurement succeeded: the first left one row and the sensor's entry,
\* the second returned nil.
BothSavedOf(s) ==
    /\ saves = 2 /\ lastSave.n = 2 /\ lastSave.decoded /\ lastSave.err = ""
    /\ lastSave.event.SensorID = s
    /\ lastSave.rowsBefore = 1 /\ lastSave.kvBefore[s].set
    /\ Len(sensor_data) = 2 /\ RowsOf(sensor_data, s) = {1, 2}

\* C36: after the events of one sensor were all saved successfully, in
\* whatever order of their timestamps, sensor:last:<id> holds the value of a
\* stored row of that sensor with the latest timestamp.
C36_LastValueIsLatest ==
    \A s \in SensorIds :
      BothSavedOf(s) =>
        \E i \in LatestRowsOf(sensor_data, s) :
          kv[s].text = FormatFloat(sensor_data[i].value)

\* ---------------------------------------------------------------- C37
\* C37: a call of SaveMeasurement for an event of sensor s leaves the rows
\* stored before as they are, adds no row of another sensor, and leaves every
\* key-value entry other than that of s as it is.
C37_SaveTouchesOnlyItsSensor ==
    [][saves' = saves + 1 /\ lastSave'.decoded =>
         LET s == lastSave'.event.SensorID
         IN  /\ SubSeq(sensor_data', 1, Len(sensor_data)) = sensor_data
             /\ Len(sensor_data') \in {Len(sensor_data), Len(sensor_data) + 1}
             /\ \A i \in (Len(sensor_data) + 1)..Len(sensor_data') :
                  sensor_data'[i].sensor_id = s
             /\ \A o \in SensorIds \ {s} : kv'[o] = kv[o]]_vars

\* A save for sensor 2 succeeded after one for sensor 1, whose row and
\* entry are as they were.
C37_Witness ==
    /\ saves = 2 /\ lastSave.decoded /\ lastSave.err = "" /\ lastSave.event.SensorID = 2
    /\ lastSave.rowsBefore = 1 /\ sensor_data[1].sensor_id = 1
    /\ lastSave.kvBefore[1].set /\ kv[1] = lastSave.kvBefore[1] /\ kv[2].set
    /\ Len(sensor_data) = 2 /\ sensor_data[2].sensor_id = 2


\* ---------------------------------------------------------------- C38
\* The latest message was handled and its payload parsed to NaN or to an
\* infinity.
SettledNotFinite ==
    /\ msg.outcome = "done" /\ ParseFloat(msg.payload).ok
    /\ ~IsFinite(ParseFloat(msg.payload).v)

\* C38: every event the Ingestor publishes carries a finite value, as the
\* event and as the number in its body, and a payload that parses to NaN or
\* to an infinity leads to no publish, whatever bounds its topic has.
C38_PublishedValuesFinite ==
    /\ \A i \in 1..Len(outbox) :
         /\ IsFinite(outbox[i].event.Value)
         /\ JsonNumber(outbox[i].body.value)
         /\ IsFinite(ParseFloat(outbox[i].body.value).v)
    /\ cur.pc = "publish" => IsFinite(cur.event.Value) /\ JsonNumber(cur.body.value)
    /\ msg.publishes > 0 => IsFinite(msg.event.Value)
    /\ SettledNotFinite => msg.publishes = 0 /\ msg.published = 0

\* An infinity arrived on a topic without bounds, passed the range check and
\* was dropped when the event could not be encoded.
C38_Witness ==
    /\ SettledNotFinite /\ msg.look.found
    /\ ~msg.look.MinValue.some /\ ~msg.look.MaxValue.some
    /\ msg.reason = "MarshalError" /\ msg.publishes = 0


\* ---------------------------------------------------------------- C39
\* What the calls i.. of the handler have written into the file of service s,
\* one call after the other.
RECURSIVE WrittenFrom(_, _)
WrittenFrom(i, s) ==
    IF i > Len(logRun.calls) THEN <<>>
    ELSE (IF logRun.calls[i].service = s THEN logRun.calls[i].text ELSE <<>>)
           \o WrittenFrom(i + 1, s)

\* The lines of the messages i.. received for service s: each payload and
\* its newline.
RECURSIVE LinesFrom(_, _)
LinesFrom(i, s) ==
    IF i > Len(logRun.calls) THEN <<>>
    ELSE (IF logRun.calls[i].service = s
          THEN logRun.calls[i].payload \o <<"\n">> ELSE <<>>)
           \o LinesFrom(i + 1, s)

\* Every message that arrived has been handled to its end.
AllHandled ==
    logRun.arrived = MaxLogs /\ logRun.queue = <<>> /\ logRun.flights = <<>>

C40_NoPublishAfterDisconnect ==
    monClient = "disconnected" =>
      \A s \in 0..MaxTicks :
        \A i \in 1..Len(monPublished[s]) : monPublished[s][i].sent

\* What holds of the shutdown: main itself publishes nothing once it has
\* taken the signal, it being past its loop.
C40_MainPublishesNothingAfterSignal ==
    \A s \in 1..MaxTicks :
      \A i \in 1..Len(monPublished[s]) : monPublished[s][i].sent

====
